---- MODULE Spec2Model ----
(***************************************************************************)
(* plant-tracker: the weekly food log (domain/weekly.ts), the points       *)
(* module (domain/points.ts), the calendar module (domain/dates.ts), the   *)
(* streak module (domain/streak.ts) and the weekly store                   *)
(* (stores/weeklyStore.ts) over the record store (infrastructure/db.ts).   *)
(*                                                                         *)
(* Time.  A Date is an instant, written as a whole number of hours since   *)
(* local midnight of the Monday of week 0 (Monday 30 December 2024), in    *)
(* local wall-clock time.  Point values are written in                     *)
(* quarter points (1 point = 4, 0.25 point = 1), which is exact for every  *)
(* value the program adds up.                                              *)
(***************************************************************************)
EXTENDS Integers, Sequences, FiniteSets, TLC

VARIABLES
    \* the weekly store (stores/weeklyStore.ts) and its environment
    now,              \* the wall clock, read by every `new Date()`
    nextId,           \* how many identifiers crypto.randomUUID has handed out
    isInitialized,
    weekStart,
    weekEnd,
    foodInstances,
    currentStreak,
    db,               \* the weekly record of the record store: <<>> or <<record>>
    firstCallDate,    \* history: per foodId, loggedDate of the first addFood
                      \* that logged it in the tracked week (Undefined if none)
    returned,         \* <<>> or <<what the store's addFood returned last>>
    \* one caller of the pure function addFoodToWeek (domain/weekly.ts)
    existingFoods,    \* the list handed to the last call
    newFood,          \* <<>> or <<candidate of the last call>>
    prevFood,         \* <<>> or <<candidate of the call before it>>
    result,           \* <<>> or <<AddFoodResult of the last call>>
    \* one caller of the pure function calculateStreak (domain/streak.ts)
    archivedWeeks,
    streak,           \* <<>> or <<the number calculateStreak returned>>
    \* the daily store (stores/dailyStore.ts); it reads the same wall clock
    currentDateString,
    waterGlasses,     \* in half glasses (1 glass = 2)
    colorsEaten,
    fermentedFoodEaten,
    dailyInitialized, \* the daily store's isInitialized
    dailyDb,          \* the daily record written last: <<>> or <<record>>
    dailyCalls,       \* history: parity of the number of calls made to the
                      \* daily store
    \* one caller of a pure function of domain/points.ts, domain/dates.ts,
    \* domain/colors.ts or domain/streak.ts
    args,             \* the arguments of the call, as a tuple
    ret,              \* <<>> or <<what the call returned>>
    \* the record store (infrastructure/db.ts) as a caller of its functions
    \* sees it, under any key: the records of its two object stores
    weeklyData,
    dailyData,
    \* the weekly store's calls on the record store that are under way, in
    \* the order they were issued
    requests

storeVars  == <<now, nextId, isInitialized, weekStart, weekEnd, foodInstances,
                currentStreak, db, firstCallDate, returned>>
weeklyVars == <<existingFoods, newFood, prevFood, result>>
streakVars == <<archivedWeeks, streak>>
dailyVars  == <<currentDateString, waterGlasses, colorsEaten,
                fermentedFoodEaten, dailyInitialized, dailyDb, dailyCalls>>
pureVars   == <<args, ret>>
recordVars == <<weeklyData, dailyData, requests>>
vars       == <<storeVars, weeklyVars, streakVars, dailyVars, pureVars,
                recordVars>>

----------------------------------------------------------------------------
\* Bounds of the model

\* identifiers crypto.randomUUID may hand out to one store
MaxIds == 2
\* calls of one store on the record store that are under way at a time
MaxPending == 2
\* length of the list handed to addFoodToWeek by its caller
MaxLen == 2
\* length of the history handed to calculateStreak
MaxWeeks == 3

\* the instants at which the wall clock is read: Monday 10:00 and Sunday 10:00
\* of week 0, Monday 10:00 of week 1
Clock == {10, 154, 178}

\* an absent optional value (firstLoggedDate?: Date left out, find() that
\* found nothing)
Undefined == -1

----------------------------------------------------------------------------
\* domain/types.ts

FOOD_CATEGORIES == {"whole_grains", "nuts_seeds", "fruits", "vegetables",
                    "legumes", "herbs_spices"}

FOOD_COLORS == {"red", "orange", "yellow", "green", "blue_purple", "white_tan"}

\* in quarter points
CATEGORY_POINT_VALUES ==
    [c \in FOOD_CATEGORIES |-> IF c = "herbs_spices" THEN 1 ELSE 4]

----------------------------------------------------------------------------
\* domain/dates.ts

HoursPerDay == 24

\* the local calendar around the instants of the model: hour 0 is local
\* midnight of Monday 30 December 2024; `first` is the day number of the 1st
\* of the month (months are numbered from 0, as Date.getMonth does)
Months ==
    << [year |-> 2024, month |-> 11, first |-> 0 - 29],
       [year |-> 2025, month |-> 0,  first |-> 2],
       [year |-> 2025, month |-> 1,  first |-> 33],
       [year |-> 2025, month |-> 2,  first |-> 61],
       [year |-> 2025, month |-> 3,  first |-> 92] >>

\* days since Monday 30 December 2024 of the local calendar day of an instant
dayNumber(date) == date \div HoursPerDay

\* the month of the local calendar a day number lies in
monthOf(n) ==
    Months[CHOOSE i \in 1..Len(Months) :
              /\ Months[i].first <= n
              /\ i < Len(Months) => n < Months[i + 1].first]

getFullYear(date) == monthOf(dayNumber(date)).year

getMonth(date) == monthOf(dayNumber(date)).month

\* Date.getDate(): the day of the month, 1..31
getDate(date) == dayNumber(date) - monthOf(dayNumber(date)).first + 1

\* Date.getDay() in local time: 0 = Sunday, 1 = Monday, ..., 6 = Saturday
getDay(date) == (dayNumber(date) + 1) % 7

\* a variant that stops at the 1st of the month
setDate_Clamped(date, day) ==
    (monthOf(dayNumber(date)).first + (IF day < 1 THEN 1 ELSE day) - 1)
        * HoursPerDay + (date % HoursPerDay)

\* Date.setDate(day): day `day` of the instant's month, time of day kept; a
\* day below 1 or past the month's end runs into the neighbouring month
setDate(date, day) ==
    (monthOf(dayNumber(date)).first + day - 1) * HoursPerDay
        + (date % HoursPerDay)

\* Date.setHours(hours, ...): the same calendar day at that hour
setHours(date, hours) == dayNumber(date) * HoursPerDay + hours

\* new Date(year, month, day): local midnight of that calendar day
newDate(year, month, day) ==
    LET m == CHOOSE i \in 1..Len(Months) :
                 Months[i].year = year /\ Months[i].month = month
    IN  (Months[m].first + day - 1) * HoursPerDay

getWeekStart(date) ==
    LET day == getDay(date)
        daysToSubtract == IF day = 0 THEN 6 ELSE day - 1
        moved == setDate(date, getDate(date) - daysToSubtract)
    IN  setHours(moved, 0)

\* Sunday 23:59:59.999 shows as the last hour of Sunday
getWeekEnd(date) ==
    LET weekStart1 == getWeekStart(date)
        weekEnd1 == setDate(weekStart1, getDate(weekStart1) + 6)
    IN  setHours(weekEnd1, 23)

\* a variant that compares the two dates themselves, not their week starts
isSameWeek_SameDay(a, b) ==
    /\ getFullYear(a) = getFullYear(b)
    /\ getMonth(a) = getMonth(b)
    /\ getDate(a) = getDate(b)

isSameWeek(a, b) ==
    LET weekStartA == getWeekStart(a)
        weekStartB == getWeekStart(b)
    IN  /\ getFullYear(weekStartA) = getFullYear(weekStartB)
        /\ getMonth(weekStartA) = getMonth(weekStartB)
        /\ getDate(weekStartA) = getDate(weekStartB)

isSameDay(a, b) ==
    /\ getFullYear(a) = getFullYear(b)
    /\ getMonth(a) = getMonth(b)
    /\ getDate(a) = getDate(b)

shouldArchiveWeek(t, currentWeekStart) == ~isSameWeek(t, currentWeekStart)

\* a variant that compares weeks, not days
shouldResetDaily_SameWeek(t, lastResetDate) == ~isSameWeek(t, lastResetDate)

shouldResetDaily(t, lastResetDate) == ~isSameDay(t, lastResetDate)

----------------------------------------------------------------------------
\* domain/points.ts

\* a variant that gives every category a whole point
getPointValue_Flat(category) == 4

getPointValue(category) == CATEGORY_POINT_VALUES[category]

RECURSIVE calculateWeeklyPoints(_)
calculateWeeklyPoints(foods) ==
    IF foods = <<>> THEN 0
    ELSE calculateWeeklyPoints(SubSeq(foods, 1, Len(foods) - 1))
         + getPointValue(foods[Len(foods)].category)

----------------------------------------------------------------------------
\* domain/weekly.ts

\* a variant that also compares the display name
isDuplicateInstance_SameName(foods, food) ==
    \E i \in 1..Len(foods) :
        /\ foods[i].foodId = food.foodId
        /\ foods[i].foodName = food.foodName
        /\ foods[i].color = food.color
        /\ foods[i].isFermented = food.isFermented

isDuplicateInstance(foods, food) ==
    \E i \in 1..Len(foods) :
        /\ foods[i].foodId = food.foodId
        /\ foods[i].color = food.color
        /\ foods[i].isFermented = food.isFermented

hasFoodBeenLogged(foods, foodId) ==
    \E i \in 1..Len(foods) : foods[i].foodId = foodId

\* Array.prototype.find: the first element with this foodId, as its index
\* (0 when there is none)
findByFoodId(foods, foodId) ==
    IF hasFoodBeenLogged(foods, foodId)
    THEN CHOOSE i \in 1..Len(foods) :
            /\ foods[i].foodId = foodId
            /\ \A j \in 1..(i - 1) : foods[j].foodId # foodId
    ELSE 0

\* a variant whose find() never matches
getFirstLoggedDate_None(foods, foodId) == Undefined

getFirstLoggedDate(foods, foodId) ==
    LET i == findByFoodId(foods, foodId)
    IN  IF i = 0 THEN Undefined ELSE foods[i].firstLoggedDate

\* a variant that stamps every new instance with the candidate's own
\* loggedDate
addFoodToWeek_OwnDate(foods, food, uuid) ==
    IF isDuplicateInstance(foods, food)
    THEN [foods |-> foods, isNewFood |-> FALSE, isDuplicateInstance |-> TRUE]
    ELSE [foods |-> Append(foods,
                       [instanceId      |-> uuid,
                        foodId          |-> food.foodId,
                        foodName        |-> food.foodName,
                        category        |-> food.category,
                        color           |-> food.color,
                        isFermented     |-> food.isFermented,
                        loggedDate      |-> food.loggedDate,
                        pointValue      |-> food.pointValue,
                        firstLoggedDate |-> food.loggedDate]),
          isNewFood |-> ~hasFoodBeenLogged(foods, food.foodId),
          isDuplicateInstance |-> FALSE]

\* a variant that puts the new instance in front of the existing ones
addFoodToWeek_Prepend(foods, food, uuid) ==
    IF isDuplicateInstance(foods, food)
    THEN [foods |-> foods, isNewFood |-> FALSE, isDuplicateInstance |-> TRUE]
    ELSE LET firstLoggedDate == getFirstLoggedDate(foods, food.foodId)
         IN  [foods |-> <<[instanceId      |-> uuid,
                           foodId          |-> food.foodId,
                           foodName        |-> food.foodName,
                           category        |-> food.category,
                           color           |-> food.color,
                           isFermented     |-> food.isFermented,
                           loggedDate      |-> food.loggedDate,
                           pointValue      |-> food.pointValue,
                           firstLoggedDate |-> IF firstLoggedDate # Undefined
                                               THEN firstLoggedDate
                                               ELSE food.loggedDate]>> \o foods,
              isNewFood |-> firstLoggedDate = Undefined,
              isDuplicateInstance |-> FALSE]

addFoodToWeek(foods, food, uuid) ==
    IF isDuplicateInstance(foods, food)
    THEN [foods |-> foods, isNewFood |-> FALSE, isDuplicateInstance |-> TRUE]
    ELSE LET firstLoggedDate == getFirstLoggedDate(foods, food.foodId)
             isNewFood == firstLoggedDate = Undefined
             newInstance ==
                 [instanceId      |-> uuid,
                  foodId          |-> food.foodId,
                  foodName        |-> food.foodName,
                  category        |-> food.category,
                  color           |-> food.color,
                  isFermented     |-> food.isFermented,
                  loggedDate      |-> food.loggedDate,
                  pointValue      |-> food.pointValue,
                  firstLoggedDate |-> IF firstLoggedDate # Undefined
                                      THEN firstLoggedDate
                                      ELSE food.loggedDate]
         IN  [foods |-> Append(foods, newInstance),
              isNewFood |-> isNewFood,
              isDuplicateInstance |-> FALSE]

\* Array.from(new Set(...)): the distinct foodIds in order of first appearance
RECURSIVE getUniqueFoodIds(_)
getUniqueFoodIds(foods) ==
    IF foods = <<>> THEN <<>>
    ELSE LET front == SubSeq(foods, 1, Len(foods) - 1)
             last  == foods[Len(foods)]
         IN  IF hasFoodBeenLogged(front, last.foodId)
             THEN getUniqueFoodIds(front)
             ELSE Append(getUniqueFoodIds(front), last.foodId)

----------------------------------------------------------------------------
\* domain/points.ts and domain/colors.ts, as the store's computed values use
\* them

\* a variant that adds a whole point for every food
calculateCategoryBreakdown_Count(foods) ==
    [c \in FOOD_CATEGORIES |->
        4 * Len(SelectSeq(foods, LAMBDA f : f.category = c))]

calculateCategoryBreakdown(foods) ==
    [c \in FOOD_CATEGORIES |->
        calculateWeeklyPoints(SelectSeq(foods, LAMBDA f : f.category = c))]

\* Array.from(new Set(...)): the distinct colors in order of first appearance
RECURSIVE calculateWeeklyColors(_)
calculateWeeklyColors(foods) ==
    IF foods = <<>> THEN <<>>
    ELSE LET front == calculateWeeklyColors(SubSeq(foods, 1, Len(foods) - 1))
             color == foods[Len(foods)].color
         IN  IF \E i \in 1..Len(front) : front[i] = color
             THEN front
             ELSE Append(front, color)

\* a variant that compares the instants, time of day included
calculateDailyColors_ExactInstant(foods, date) ==
    calculateWeeklyColors(
        SelectSeq(foods, LAMBDA food : food.loggedDate = date))

\* the entries logged on the calendar day of `date`, then their distinct
\* colors in order of first appearance
calculateDailyColors(foods, date) ==
    calculateWeeklyColors(
        SelectSeq(foods, LAMBDA food :
            /\ getFullYear(food.loggedDate) = getFullYear(date)
            /\ getMonth(food.loggedDate) = getMonth(date)
            /\ getDate(food.loggedDate) = getDate(date)))

hasAllColors(colors) == Len(colors) = 6

\* the six colors in the order getMissingColors lists them
allColors == <<"red", "orange", "yellow", "green", "blue_purple", "white_tan">>

----------------------------------------------------------------------------
\* stores/weeklyStore.ts: computed values

\* a variant that lists every instance, not one per unique foodId
foodsForPoints_EveryInstance(instances) ==
    [k \in 1..Len(instances) |->
        [foodId |-> instances[k].foodId, category |-> instances[k].category]]

\* the FoodForPoints list both totalPoints and categoryBreakdown build: for
\* each unique foodId, the first instance with that foodId
foodsForPoints(instances) ==
    LET ids == getUniqueFoodIds(instances)
    IN  [k \in 1..Len(ids) |->
            LET instance == instances[findByFoodId(instances, ids[k])]
            IN  [foodId |-> instance.foodId, category |-> instance.category]]

totalPoints(instances) == calculateWeeklyPoints(foodsForPoints(instances))

categoryBreakdown(instances) ==
    calculateCategoryBreakdown(foodsForPoints(instances))

colorsAchieved(instances) == calculateWeeklyColors(instances)

goalAchieved(instances) == totalPoints(instances) >= 4 * 30

----------------------------------------------------------------------------
\* stores/weeklyStore.ts: the record written to and read from the record store

\* Date.prototype.toISOString and new Date(isoString): the string names the
\* instant
toISOString(date) == [iso |-> date]
parseISOString(str) == str.iso

convertInstanceToRecord(instance) ==
    [instance EXCEPT !.loggedDate = toISOString(instance.loggedDate),
                     !.firstLoggedDate = toISOString(instance.firstLoggedDate)]

convertRecordToInstance(record) ==
    [record EXCEPT !.loggedDate = parseISOString(record.loggedDate),
                   !.firstLoggedDate = parseISOString(record.firstLoggedDate)]

\* the WeeklyDataRecord persistToDb builds from the store's state
weeklyRecord(ws, we, instances, strk) ==
    [weekStart         |-> toISOString(ws),
     weekEnd           |-> toISOString(we),
     foodInstances     |-> [i \in 1..Len(instances) |->
                               convertInstanceToRecord(instances[i])],
     uniqueFoods       |-> getUniqueFoodIds(instances),
     totalPoints       |-> totalPoints(instances),
     categoryBreakdown |-> categoryBreakdown(instances),
     colorsAchieved    |-> colorsAchieved(instances),
     currentStreak     |-> strk]

\* saveWeeklyData: db.put under the one user's key
persistToDb(ws, we, instances, strk) ==
    db' = <<weeklyRecord(ws, we, instances, strk)>>

----------------------------------------------------------------------------
\* The foods a caller submits to the store's addFood, the colors, the
\* fermentation flags and the streak values the model draws from

FoodIds == {"cabbage", "garlic"}

Foods ==
    { [foodId |-> "cabbage", foodName |-> "Cabbage",
       category |-> "vegetables", pointValue |-> 4],
      [foodId |-> "garlic", foodName |-> "Garlic",
       category |-> "herbs_spices", pointValue |-> 1],
      [foodId |-> "cabbage", foodName |-> "Sauerkraut",
       category |-> "herbs_spices", pointValue |-> 4] }

Colors == {"green", "red"}

\* the updates handed to updateFood: color and isFermented are each <<>>
\* (left out) or <<value>>
Updates ==
    { [color |-> <<"green">>, isFermented |-> <<>>],
      [color |-> <<>>,        isFermented |-> <<FALSE>>],
      [color |-> <<"red">>,   isFermented |-> <<TRUE>>],
      [color |-> <<>>,        isFermented |-> <<>>] }

StreakValues == {0, 1}

NoFoodLogged == [f \in FoodIds |-> Undefined]

\* a short week stored earlier: cabbage (green), garlic (red) and cabbage
\* again (red), logged on Monday 10:00
StoredLog ==
    << [instanceId |-> 201, foodId |-> "cabbage", foodName |-> "Cabbage",
        category |-> "vegetables", color |-> "green", isFermented |-> FALSE,
        loggedDate |-> 10, pointValue |-> 4, firstLoggedDate |-> 10],
       [instanceId |-> 202, foodId |-> "garlic", foodName |-> "Garlic",
        category |-> "herbs_spices", color |-> "red", isFermented |-> FALSE,
        loggedDate |-> 10, pointValue |-> 1, firstLoggedDate |-> 10],
       [instanceId |-> 203, foodId |-> "cabbage", foodName |-> "Cabbage",
        category |-> "vegetables", color |-> "red", isFermented |-> FALSE,
        loggedDate |-> 10, pointValue |-> 4, firstLoggedDate |-> 10] >>

\* the instanceIds handed to removeFood: those crypto.randomUUID hands out to
\* the store, and those of StoredLog
InstanceIds ==
    (1..MaxIds) \cup { StoredLog[k].instanceId : k \in 1..Len(StoredLog) }

\* the candidate addFood builds from its argument and the clock
candidate(food, color, isFermented, loggedDate) ==
    [foodId      |-> food.foodId,
     foodName    |-> food.foodName,
     category    |-> food.category,
     color       |-> color,
     isFermented |-> isFermented,
     loggedDate  |-> loggedDate,
     pointValue  |-> food.pointValue]

----------------------------------------------------------------------------
\* stores/weeklyStore.ts: actions.  Each runs to its end, the save included.

StoreInit ==
    /\ now = 10
    /\ nextId = 0
    /\ isInitialized = FALSE
    /\ weekStart = getWeekStart(now)
    /\ weekEnd = getWeekEnd(now)
    /\ foodInstances = <<>>
    /\ currentStreak = 0
    /\ db = <<>>
    /\ firstCallDate = NoFoodLogged
    /\ returned = <<>>

\* the wall clock moves on
Tick ==
    /\ \E t \in Clock : t > now /\ now' = t
    /\ UNCHANGED <<nextId, isInitialized, weekStart, weekEnd, foodInstances,
                   currentStreak, db, firstCallDate, returned>>
    /\ UNCHANGED <<weeklyVars, streakVars, dailyVars, pureVars, recordVars>>

\* a page reload: a new store instance over the same record store
Reload ==
    /\ isInitialized' = FALSE
    /\ weekStart' = getWeekStart(now)
    /\ weekEnd' = getWeekEnd(now)
    /\ foodInstances' = <<>>
    /\ currentStreak' = 0
    /\ UNCHANGED <<now, nextId, db, firstCallDate, returned>>
    /\ UNCHANGED <<weeklyVars, streakVars, dailyVars, pureVars, recordVars>>

\* a variant that loads the record again on every call
Initialize_Again ==
    /\ IF db # <<>>
       THEN LET data == db[1]
            IN  /\ weekStart' = parseISOString(data.weekStart)
                /\ weekEnd' = parseISOString(data.weekEnd)
                /\ currentStreak' = data.currentStreak
                /\ foodInstances' =
                       [i \in 1..Len(data.foodInstances) |->
                           convertRecordToInstance(data.foodInstances[i])]
       ELSE /\ weekStart' = getWeekStart(now)
            /\ weekEnd' = getWeekEnd(now)
            /\ foodInstances' = <<>>
            /\ currentStreak' = 0
    /\ isInitialized' = TRUE
    /\ UNCHANGED <<now, nextId, db, firstCallDate, returned>>
    /\ UNCHANGED <<weeklyVars, streakVars, dailyVars, pureVars, recordVars>>

Initialize ==
    /\ IF isInitialized
       THEN UNCHANGED <<weekStart, weekEnd, foodInstances, currentStreak>>
       ELSE IF db # <<>>
            THEN LET data == db[1]
                 IN  /\ weekStart' = parseISOString(data.weekStart)
                     /\ weekEnd' = parseISOString(data.weekEnd)
                     /\ currentStreak' = data.currentStreak
                     /\ foodInstances' =
                            [i \in 1..Len(data.foodInstances) |->
                                convertRecordToInstance(data.foodInstances[i])]
            ELSE /\ weekStart' = getWeekStart(now)
                 /\ weekEnd' = getWeekEnd(now)
                 /\ foodInstances' = <<>>
                 /\ currentStreak' = 0
    /\ isInitialized' = TRUE
    /\ UNCHANGED <<now, nextId, db, firstCallDate, returned>>
    /\ UNCHANGED <<weeklyVars, streakVars, dailyVars, pureVars, recordVars>>

\* a variant that turns a duplicate down without saying it was one
addFood_Unsignaled(food, color, isFermented) ==
    LET food1 == candidate(food, color, isFermented, now)
        res   == addFoodToWeek(foodInstances, food1, nextId + 1)
    IN  /\ IF res.isDuplicateInstance
           THEN /\ returned' = <<[success |-> FALSE, isDuplicate |-> FALSE]>>
                /\ UNCHANGED <<now, nextId, isInitialized, weekStart, weekEnd,
                               foodInstances, currentStreak, db,
                               firstCallDate>>
           ELSE /\ nextId < MaxIds
                /\ nextId' = nextId + 1
                /\ foodInstances' = res.foods
                /\ persistToDb(weekStart, weekEnd, res.foods, currentStreak)
                /\ firstCallDate' =
                       IF firstCallDate[food.foodId] = Undefined
                       THEN [firstCallDate EXCEPT ![food.foodId] = now]
                       ELSE firstCallDate
                /\ returned' = <<[success |-> TRUE, isDuplicate |-> FALSE]>>
                /\ UNCHANGED <<now, isInitialized, weekStart, weekEnd,
                               currentStreak>>
        /\ UNCHANGED <<weeklyVars, streakVars, dailyVars, pureVars,
                       recordVars>>

addFood(food, color, isFermented) ==
    LET food1 == candidate(food, color, isFermented, now)
        res   == addFoodToWeek(foodInstances, food1, nextId + 1)
    IN  /\ IF res.isDuplicateInstance
           THEN /\ returned' = <<[success |-> FALSE, isDuplicate |-> TRUE]>>
                /\ UNCHANGED <<now, nextId, isInitialized, weekStart, weekEnd,
                               foodInstances, currentStreak, db,
                               firstCallDate>>
           ELSE /\ nextId < MaxIds
                /\ nextId' = nextId + 1
                /\ foodInstances' = res.foods
                /\ persistToDb(weekStart, weekEnd, res.foods, currentStreak)
                /\ firstCallDate' =
                       IF firstCallDate[food.foodId] = Undefined
                       THEN [firstCallDate EXCEPT ![food.foodId] = now]
                       ELSE firstCallDate
                /\ returned' = <<[success |-> TRUE, isDuplicate |-> FALSE]>>
                /\ UNCHANGED <<now, isInitialized, weekStart, weekEnd,
                               currentStreak>>
        /\ UNCHANGED <<weeklyVars, streakVars, dailyVars, pureVars,
                       recordVars>>

AddFood ==
    \E food \in Foods, color \in Colors, isFermented \in BOOLEAN :
        addFood(food, color, isFermented)

\* a variant that drops every instance of the food the named instance is of
removeFood_WholeFood(instanceId) ==
    LET named == SelectSeq(foodInstances,
                           LAMBDA i : i.instanceId = instanceId)
        kept == SelectSeq(foodInstances,
                          LAMBDA i : \A k \in 1..Len(named) :
                                         i.foodId # named[k].foodId)
    IN  /\ foodInstances' = kept
        /\ persistToDb(weekStart, weekEnd, kept, currentStreak)
        /\ UNCHANGED <<now, nextId, isInitialized, weekStart, weekEnd,
                       currentStreak, firstCallDate, returned>>
        /\ UNCHANGED <<weeklyVars, streakVars, dailyVars, pureVars,
                       recordVars>>

removeFood(instanceId) ==
    LET kept == SelectSeq(foodInstances,
                          LAMBDA i : i.instanceId # instanceId)
    IN  /\ foodInstances' = kept
        /\ persistToDb(weekStart, weekEnd, kept, currentStreak)
        /\ UNCHANGED <<now, nextId, isInitialized, weekStart, weekEnd,
                       currentStreak, firstCallDate, returned>>
        /\ UNCHANGED <<weeklyVars, streakVars, dailyVars, pureVars,
                       recordVars>>

RemoveFood == \E instanceId \in InstanceIds : removeFood(instanceId)

\* a variant that updates every instance of the food the named instance
\* is of
updateFood_WholeFood(instanceId, updates) ==
    /\ IF \E k \in 1..Len(foodInstances) :
              foodInstances[k].instanceId = instanceId
       THEN LET k == CHOOSE k \in 1..Len(foodInstances) :
                       foodInstances[k].instanceId = instanceId
                instance == foodInstances[k]
                instances ==
                    [j \in 1..Len(foodInstances) |->
                        IF foodInstances[j].foodId = instance.foodId
                        THEN [foodInstances[j] EXCEPT
                                 !.color = IF updates.color # <<>>
                                           THEN updates.color[1] ELSE @,
                                 !.isFermented =
                                     IF updates.isFermented # <<>>
                                     THEN updates.isFermented[1] ELSE @]
                        ELSE foodInstances[j]]
            IN  /\ foodInstances' = instances
                /\ persistToDb(weekStart, weekEnd, instances, currentStreak)
                /\ UNCHANGED <<now, nextId, isInitialized, weekStart,
                               weekEnd, currentStreak, firstCallDate,
                               returned>>
       ELSE UNCHANGED storeVars
    /\ UNCHANGED <<weeklyVars, streakVars, dailyVars, pureVars, recordVars>>

updateFood(instanceId, updates) ==
    /\ IF \E k \in 1..Len(foodInstances) :
              foodInstances[k].instanceId = instanceId
       THEN LET k == CHOOSE k \in 1..Len(foodInstances) :
                       foodInstances[k].instanceId = instanceId
                instance == foodInstances[k]
                updated ==
                    [instance EXCEPT
                        !.color = IF updates.color # <<>>
                                  THEN updates.color[1] ELSE @,
                        !.isFermented = IF updates.isFermented # <<>>
                                        THEN updates.isFermented[1] ELSE @]
                instances == [foodInstances EXCEPT ![k] = updated]
            IN  /\ foodInstances' = instances
                /\ persistToDb(weekStart, weekEnd, instances, currentStreak)
                /\ UNCHANGED <<now, nextId, isInitialized, weekStart,
                               weekEnd, currentStreak, firstCallDate,
                               returned>>
       ELSE UNCHANGED storeVars
    /\ UNCHANGED <<weeklyVars, streakVars, dailyVars, pureVars, recordVars>>

UpdateFood ==
    \E instanceId \in 1..MaxIds, updates \in Updates :
        updateFood(instanceId, updates)

\* a variant that also starts the streak over
ResetWeek_ZeroStreak ==
    /\ weekStart' = getWeekStart(now)
    /\ weekEnd' = getWeekEnd(now)
    /\ foodInstances' = <<>>
    /\ currentStreak' = 0
    /\ persistToDb(getWeekStart(now), getWeekEnd(now), <<>>, 0)
    /\ firstCallDate' = NoFoodLogged
    /\ UNCHANGED <<now, nextId, isInitialized, returned>>
    /\ UNCHANGED <<weeklyVars, streakVars, dailyVars, pureVars, recordVars>>

ResetWeek ==
    /\ weekStart' = getWeekStart(now)
    /\ weekEnd' = getWeekEnd(now)
    /\ foodInstances' = <<>>
    /\ persistToDb(getWeekStart(now), getWeekEnd(now), <<>>, currentStreak)
    /\ firstCallDate' = NoFoodLogged
    /\ UNCHANGED <<now, nextId, isInitialized, currentStreak, returned>>
    /\ UNCHANGED <<weeklyVars, streakVars, dailyVars, pureVars, recordVars>>

SetStreak ==
    /\ \E s \in StreakValues : currentStreak' = s
    /\ UNCHANGED <<now, nextId, isInitialized, weekStart, weekEnd,
                   foodInstances, db, firstCallDate, returned>>
    /\ UNCHANGED <<weeklyVars, streakVars, dailyVars, pureVars, recordVars>>

----------------------------------------------------------------------------
\* stores/dailyStore.ts.  The count of water glasses is written in half
\* glasses, so that setWaterGlasses can be handed a number that is not whole.

WATER_MIN == 0
WATER_MAX == 2 * 20
WATER_TARGET == 2 * 8

\* "YYYY-MM-DD": the local year, the month counted from 1, the day of the month
formatDateString(date) ==
    [year  |-> getFullYear(date),
     month |-> getMonth(date) + 1,
     day   |-> getDate(date)]

parseDateString(dateString) ==
    newDate(dateString.year, dateString.month - 1, dateString.day)

\* loadDailyData(userId, date): the record under the key userId-date.  Only
\* the record written last is kept: the store's date never moves back, so an
\* earlier day's record is never asked for again.
loadDailyData(date) ==
    IF dailyDb # <<>> /\ dailyDb[1].date = date THEN dailyDb ELSE <<>>

\* a variant that leaves the fermented flag out of what it saves
persistDailyToDb_NoFlag(dateString, water, colors, fermented) ==
    dailyDb' = <<[date               |-> dateString,
                  waterGlasses       |-> water,
                  colorsEaten        |-> colors,
                  fermentedFoodEaten |-> FALSE]>>

\* persistToDb of the daily store (saveDailyData: db.put under userId-date)
persistDailyToDb(dateString, water, colors, fermented) ==
    dailyDb' = <<[date               |-> dateString,
                  waterGlasses       |-> water,
                  colorsEaten        |-> colors,
                  fermentedFoodEaten |-> fermented]>>

waterGoalAchieved == waterGlasses >= WATER_TARGET

\* the counts handed to setWaterGlasses, in half glasses: -1, 0, 5, 7.5,
\* 19.5, 20, 20.5 and 25 glasses
WaterCounts == {0 - 2, 0, 10, 15, 39, 40, 41, 50}

\* the lists handed to updateFromFoodInstances: entries logged on Monday 30
\* December, Sunday 5 January and Monday 6 January at 10:00, and one logged
\* on 30 January
DailyInstanceLists ==
    { <<>>,
      <<[color |-> "green", isFermented |-> FALSE, loggedDate |-> 10]>>,
      <<[color |-> "red", isFermented |-> TRUE, loggedDate |-> 10]>>,
      <<[color |-> "green", isFermented |-> FALSE, loggedDate |-> 10],
        [color |-> "red", isFermented |-> TRUE, loggedDate |-> 154]>>,
      <<[color |-> "red", isFermented |-> FALSE, loggedDate |-> 154],
        [color |-> "red", isFermented |-> TRUE, loggedDate |-> 178],
        [color |-> "green", isFermented |-> FALSE, loggedDate |-> 178]>>,
      <<[color |-> "red", isFermented |-> TRUE,
         loggedDate |-> 31 * HoursPerDay + 10]>> }

DailyStoreInit ==
    /\ currentDateString = formatDateString(now)
    /\ waterGlasses = 0
    /\ colorsEaten = <<>>
    /\ fermentedFoodEaten = FALSE
    /\ dailyInitialized = FALSE
    /\ dailyDb = <<>>
    /\ dailyCalls = 0

\* a page reload: a new daily store instance over the same record store
DailyReload ==
    /\ currentDateString' = formatDateString(now)
    /\ waterGlasses' = 0
    /\ colorsEaten' = <<>>
    /\ fermentedFoodEaten' = FALSE
    /\ dailyInitialized' = FALSE
    /\ UNCHANGED <<dailyDb, storeVars, weeklyVars, streakVars, pureVars,
                   recordVars>>
    /\ dailyCalls' = 1 - dailyCalls

\* initialize of the daily store, loadTodayData included
DailyInitialize ==
    /\ IF dailyInitialized
       THEN UNCHANGED <<currentDateString, waterGlasses, colorsEaten,
                        fermentedFoodEaten>>
       ELSE LET dateString == formatDateString(now)
                data == loadDailyData(dateString)
            IN  /\ currentDateString' = dateString
                /\ IF data # <<>>
                   THEN /\ waterGlasses' = data[1].waterGlasses
                        /\ colorsEaten' = data[1].colorsEaten
                        /\ fermentedFoodEaten' = data[1].fermentedFoodEaten
                   ELSE /\ waterGlasses' = 0
                        /\ colorsEaten' = <<>>
                        /\ fermentedFoodEaten' = FALSE
    /\ dailyInitialized' = TRUE
    /\ UNCHANGED <<dailyDb, storeVars, weeklyVars, streakVars, pureVars,
                   recordVars>>
    /\ dailyCalls' = 1 - dailyCalls

resetForNewDay(newDate1) ==
    /\ currentDateString' = formatDateString(newDate1)
    /\ waterGlasses' = 0
    /\ colorsEaten' = <<>>
    /\ fermentedFoodEaten' = FALSE
    /\ persistDailyToDb(formatDateString(newDate1), 0, <<>>, FALSE)

CheckForDayReset ==
    /\ LET currentDate == parseDateString(currentDateString)
       IN  IF shouldResetDaily(now, currentDate)
           THEN resetForNewDay(now)
           ELSE UNCHANGED <<currentDateString, waterGlasses, colorsEaten,
                            fermentedFoodEaten, dailyDb>>
    /\ UNCHANGED <<dailyInitialized, storeVars, weeklyVars, streakVars,
                   pureVars, recordVars>>
    /\ dailyCalls' = 1 - dailyCalls

IncrementWater ==
    /\ IF waterGlasses < WATER_MAX
       THEN /\ waterGlasses' = waterGlasses + 2
            /\ persistDailyToDb(currentDateString, waterGlasses + 2,
                                colorsEaten, fermentedFoodEaten)
       ELSE UNCHANGED <<waterGlasses, dailyDb>>
    /\ UNCHANGED <<currentDateString, colorsEaten, fermentedFoodEaten,
                   dailyInitialized, storeVars, weeklyVars, streakVars,
                   pureVars, recordVars>>
    /\ dailyCalls' = 1 - dailyCalls

DecrementWater ==
    /\ IF waterGlasses > WATER_MIN
       THEN /\ waterGlasses' = waterGlasses - 2
            /\ persistDailyToDb(currentDateString, waterGlasses - 2,
                                colorsEaten, fermentedFoodEaten)
       ELSE UNCHANGED <<waterGlasses, dailyDb>>
    /\ UNCHANGED <<currentDateString, colorsEaten, fermentedFoodEaten,
                   dailyInitialized, storeVars, weeklyVars, streakVars,
                   pureVars, recordVars>>
    /\ dailyCalls' = 1 - dailyCalls

\* a variant that clamps a count out of range to the nearest limit
setWaterGlasses_Clamp(count) ==
    LET clamped == IF count < WATER_MIN THEN WATER_MIN
                   ELSE IF count > WATER_MAX THEN WATER_MAX ELSE count
    IN  /\ waterGlasses' = clamped
        /\ persistDailyToDb(currentDateString, clamped, colorsEaten,
                            fermentedFoodEaten)
        /\ UNCHANGED <<currentDateString, colorsEaten, fermentedFoodEaten,
                       dailyInitialized, storeVars, weeklyVars, streakVars,
                       pureVars, recordVars>>
        /\ dailyCalls' = 1 - dailyCalls

setWaterGlasses(count) ==
    /\ IF count >= WATER_MIN /\ count <= WATER_MAX
       THEN /\ waterGlasses' = count
            /\ persistDailyToDb(currentDateString, count, colorsEaten,
                                fermentedFoodEaten)
       ELSE UNCHANGED <<waterGlasses, dailyDb>>
    /\ UNCHANGED <<currentDateString, colorsEaten, fermentedFoodEaten,
                   dailyInitialized, storeVars, weeklyVars, streakVars,
                   pureVars, recordVars>>
    /\ dailyCalls' = 1 - dailyCalls

SetWaterGlasses == \E count \in WaterCounts : setWaterGlasses(count)

\* a variant that does not look whether the color is there already
addColor_Again(color) ==
    /\ colorsEaten' = Append(colorsEaten, color)
    /\ persistDailyToDb(currentDateString, waterGlasses,
                        Append(colorsEaten, color), fermentedFoodEaten)
    /\ UNCHANGED <<currentDateString, waterGlasses, fermentedFoodEaten,
                   dailyInitialized, storeVars, weeklyVars, streakVars,
                   pureVars, recordVars>>
    /\ dailyCalls' = 1 - dailyCalls

addColor(color) ==
    /\ IF \A i \in 1..Len(colorsEaten) : colorsEaten[i] # color
       THEN /\ colorsEaten' = Append(colorsEaten, color)
            /\ persistDailyToDb(currentDateString, waterGlasses,
                                Append(colorsEaten, color),
                                fermentedFoodEaten)
       ELSE UNCHANGED <<colorsEaten, dailyDb>>
    /\ UNCHANGED <<currentDateString, waterGlasses, fermentedFoodEaten,
                   dailyInitialized, storeVars, weeklyVars, streakVars,
                   pureVars, recordVars>>
    /\ dailyCalls' = 1 - dailyCalls

AddColor == \E color \in Colors : addColor(color)

\* addColor with any of the six colors
AddAnyColor == \E color \in FOOD_COLORS : addColor(color)

\* allColorsAchieved of the daily store
allColorsAchieved == Len(colorsEaten) = 6

MarkFermentedFood ==
    /\ IF ~fermentedFoodEaten
       THEN /\ fermentedFoodEaten' = TRUE
            /\ persistDailyToDb(currentDateString, waterGlasses, colorsEaten,
                                TRUE)
       ELSE UNCHANGED <<fermentedFoodEaten, dailyDb>>
    /\ UNCHANGED <<currentDateString, waterGlasses, colorsEaten,
                   dailyInitialized, storeVars, weeklyVars, streakVars,
                   pureVars, recordVars>>
    /\ dailyCalls' = 1 - dailyCalls

\* a variant that takes the colors and the flag from every instance handed
\* over, whatever day it was logged on
updateFromFoodInstances_AllDays(instances) ==
    LET dailyColors ==
            calculateWeeklyColors(
                [k \in 1..Len(instances) |->
                    [color      |-> instances[k].color,
                     loggedDate |-> instances[k].loggedDate]])
        hasFermented == \E k \in 1..Len(instances) : instances[k].isFermented
    IN  /\ colorsEaten' = dailyColors
        /\ fermentedFoodEaten' = hasFermented
        /\ persistDailyToDb(currentDateString, waterGlasses, dailyColors,
                            hasFermented)
        /\ UNCHANGED <<currentDateString, waterGlasses, dailyInitialized,
                       storeVars, weeklyVars, streakVars, pureVars,
                       recordVars>>
        /\ dailyCalls' = 1 - dailyCalls

updateFromFoodInstances(instances) ==
    LET currentDate == parseDateString(currentDateString)
        todayInstances ==
            SelectSeq(instances,
                      LAMBDA i : isSameDay(i.loggedDate, currentDate))
        dailyColors ==
            calculateDailyColors(
                [k \in 1..Len(todayInstances) |->
                    [color      |-> todayInstances[k].color,
                     loggedDate |-> todayInstances[k].loggedDate]],
                currentDate)
        hasFermented ==
            \E k \in 1..Len(todayInstances) : todayInstances[k].isFermented
    IN  /\ colorsEaten' = dailyColors
        /\ fermentedFoodEaten' = hasFermented
        /\ persistDailyToDb(currentDateString, waterGlasses, dailyColors,
                            hasFermented)
        /\ UNCHANGED <<currentDateString, waterGlasses, dailyInitialized,
                       storeVars, weeklyVars, streakVars, pureVars,
                       recordVars>>
        /\ dailyCalls' = 1 - dailyCalls

UpdateFromFoodInstances ==
    \E instances \in DailyInstanceLists : updateFromFoodInstances(instances)

ResetDaily ==
    /\ waterGlasses' = 0
    /\ colorsEaten' = <<>>
    /\ fermentedFoodEaten' = FALSE
    /\ persistDailyToDb(currentDateString, 0, <<>>, FALSE)
    /\ UNCHANGED <<currentDateString, dailyInitialized, storeVars,
                   weeklyVars, streakVars, pureVars, recordVars>>
    /\ dailyCalls' = 1 - dailyCalls

----------------------------------------------------------------------------
\* The weekly store: every action, in any order

WeeklyIdle ==
    /\ existingFoods = <<>>
    /\ newFood = <<>>
    /\ prevFood = <<>>
    /\ result = <<>>

StreakIdle ==
    /\ archivedWeeks = <<>>
    /\ streak = <<>>

PureIdle ==
    /\ args = <<>>
    /\ ret = <<>>

RecordIdle ==
    /\ weeklyData = {}
    /\ dailyData = {}
    /\ requests = <<>>

Init ==
    /\ StoreInit /\ WeeklyIdle /\ StreakIdle /\ DailyStoreInit
    /\ PureIdle /\ RecordIdle

Next ==
    \/ Tick
    \/ Reload
    \/ Initialize
    \/ AddFood
    \/ RemoveFood
    \/ UpdateFood
    \/ ResetWeek
    \/ SetStreak

Spec == Init /\ [][Next]_vars

\* The weekly store when only addFood is called, from the empty list
NextAddOnly ==
    \/ Tick
    \/ AddFood

SpecAddOnly == Init /\ [][NextAddOnly]_vars

\* The weekly store over one week: addFood and removeFood while the clock
\* stays in the week the store was constructed in
TickInWeek == Tick /\ isSameWeek(now', weekStart)

NextWeekLog ==
    \/ TickInWeek
    \/ AddFood
    \/ RemoveFood

SpecWeekLog == Init /\ [][NextWeekLog]_vars

\* The weekly store over a record store that holds StoredLog: initialize,
\* addFood and removeFood
StoreInitLog ==
    /\ now = 10
    /\ nextId = 0
    /\ isInitialized = FALSE
    /\ weekStart = getWeekStart(now)
    /\ weekEnd = getWeekEnd(now)
    /\ foodInstances = <<>>
    /\ currentStreak = 0
    /\ db = <<weeklyRecord(getWeekStart(now), getWeekEnd(now), StoredLog, 0)>>
    /\ firstCallDate = NoFoodLogged
    /\ returned = <<>>

InitRemove ==
    StoreInitLog /\ WeeklyIdle /\ StreakIdle /\ DailyStoreInit
    /\ PureIdle /\ RecordIdle

NextRemove ==
    \/ Initialize
    \/ AddFood
    \/ RemoveFood

SpecRemove == InitRemove /\ [][NextRemove]_vars

\* The two stores side by side.  They share nothing but the clock, so a
\* behaviour changes one of them while the other holds what a store holds
\* over an empty record store, initialized or not.
WeeklyUntouched ==
    /\ nextId = 0
    /\ foodInstances = <<>>
    /\ currentStreak = 0
    /\ db = <<>>
    /\ returned = <<>>

DailyUntouched ==
    /\ waterGlasses = 0
    /\ colorsEaten = <<>>
    /\ ~fermentedFoodEaten
    /\ dailyDb = <<>>

WeeklyAlone ==
    DailyUntouched /\ (Reload \/ Initialize \/ AddFood \/ SetStreak)

DailyAlone ==
    WeeklyUntouched /\ (DailyReload \/ DailyInitialize \/ IncrementWater
                           \/ MarkFermentedFood)

NextStores ==
    \/ Tick
    \/ WeeklyAlone
    \/ DailyAlone

SpecStores == Init /\ [][NextStores]_vars

\* The daily store: every action, in any order
NextDaily ==
    \/ Tick
    \/ DailyReload
    \/ DailyInitialize
    \/ CheckForDayReset
    \/ IncrementWater
    \/ DecrementWater
    \/ SetWaterGlasses
    \/ AddColor
    \/ MarkFermentedFood
    \/ UpdateFromFoodInstances
    \/ ResetDaily

SpecDaily == Init /\ [][NextDaily]_vars

\* the daily store at work on its colors, with all six colors handed in
NextDayColors ==
    \/ Tick
    \/ DailyReload
    \/ DailyInitialize
    \/ CheckForDayReset
    \/ AddAnyColor
    \/ UpdateFromFoodInstances
    \/ ResetDaily

SpecDayColors == Init /\ [][NextDayColors]_vars

----------------------------------------------------------------------------
\* domain/weekly.ts called directly, as its tests do: a caller hands
\* addFoodToWeek a list it built itself, then goes on with the returned list

\* the instant every hand-built instance was logged at, and the instant of
\* the caller's adds
BuiltDate == 10
CallDate == 154

\* an instance as a caller writes it down: firstLoggedDate is optional
builtInstance(food, color, isFermented, firstLoggedDate) ==
    [instanceId      |-> 0,
     foodId          |-> food.foodId,
     foodName        |-> food.foodName,
     category        |-> food.category,
     color           |-> color,
     isFermented     |-> isFermented,
     loggedDate      |-> BuiltDate,
     pointValue      |-> food.pointValue,
     firstLoggedDate |-> firstLoggedDate]

BuiltInstances ==
    { builtInstance(food, color, isFermented, firstLoggedDate) :
        food \in {f \in Foods : f.foodName # "Sauerkraut"},
        color \in Colors, isFermented \in BOOLEAN,
        firstLoggedDate \in {Undefined, BuiltDate} }

\* the lists of up to MaxLen hand-built instances, with instanceIds 1, 2, ...
BuiltLists ==
    UNION { { [i \in 1..n |-> [l[i] EXCEPT !.instanceId = i]] :
                l \in [1..n -> BuiltInstances] } : n \in 0..MaxLen }

Candidates ==
    { candidate(food, color, isFermented, CallDate) :
        food \in Foods, color \in Colors, isFermented \in BOOLEAN }

\* crypto.randomUUID for a list whose instanceIds are 1..Len
randomUUID(foods) == Len(foods) + 1

WeeklyInit ==
    /\ existingFoods \in BuiltLists
    /\ newFood = <<>>
    /\ prevFood = <<>>
    /\ result = <<>>

\* one call addFoodToWeek(existingFoods, newFood); the list handed over is
\* the hand-built one at first, then the one the call before returned
CallAddFoodToWeek ==
    /\ existingFoods' = IF result = <<>> THEN existingFoods ELSE result[1].foods
    /\ Len(existingFoods') <= MaxLen
    /\ \E food \in Candidates :
        /\ newFood' = <<food>>
        /\ result' = <<addFoodToWeek(existingFoods', food,
                                     randomUUID(existingFoods'))>>
    /\ prevFood' = newFood
    /\ UNCHANGED <<storeVars, streakVars, dailyVars, pureVars, recordVars>>

InitWeekly ==
    StoreInit /\ WeeklyInit /\ StreakIdle /\ DailyStoreInit
    /\ PureIdle /\ RecordIdle

SpecWeekly == InitWeekly /\ [][CallAddFoodToWeek]_vars

----------------------------------------------------------------------------
\* domain/streak.ts

\* 7 * 24 * 60 * 60 * 1000 ms, in hours
oneWeekMs == 7 * HoursPerDay

\* a variant that accepts any gap of a week or more
areConsecutiveWeeks_AtLeast(recentWeek, olderWeek) ==
    (recentWeek.weekStart - olderWeek.weekStart) >= oneWeekMs

areConsecutiveWeeks(recentWeek, olderWeek) ==
    LET recentMonday == recentWeek.weekStart
        olderMonday  == olderWeek.weekStart
    IN  (recentMonday - olderMonday) = oneWeekMs

\* the for loop of calculateStreak from index i on, with `count` weeks counted
RECURSIVE calculateStreakLoop(_, _, _)
calculateStreakLoop(weeks, i, count) ==
    IF i > Len(weeks) THEN count
    ELSE IF ~weeks[i].goalAchieved THEN count
    ELSE IF i > 1 /\ ~areConsecutiveWeeks(weeks[i - 1], weeks[i]) THEN count
    ELSE calculateStreakLoop(weeks, i + 1, count + 1)

calculateStreak(weeks) ==
    IF Len(weeks) = 0 THEN 0 ELSE calculateStreakLoop(weeks, 1, 0)

\* a variant that asks for more than 30 points
didAchieveGoal_Strict(points) == points > 4 * 30

didAchieveGoal(points) == points >= 4 * 30

\* the histories handed to calculateStreak: weeks as the tests' helper
\* createArchivedWeek builds them, in any order
createArchivedWeek(mondayDate, points) ==
    [weekStart    |-> mondayDate,
     weekEnd      |-> mondayDate + 6 * HoursPerDay + 23,
     totalPoints  |-> points,
     goalAchieved |-> points >= 4 * 30]

\* the Mondays of weeks 0, 2, 3 and 4
Mondays == {0 * oneWeekMs, 2 * oneWeekMs, 3 * oneWeekMs, 4 * oneWeekMs}

\* 29.75 and 30 points
WeekPoints == {119, 120}

ArchivedWeeks ==
    { createArchivedWeek(m, p) : m \in Mondays, p \in WeekPoints }

Histories == UNION { [1..n -> ArchivedWeeks] : n \in 0..MaxWeeks }

StreakInit ==
    /\ archivedWeeks \in Histories
    /\ streak = <<>>

CallCalculateStreak ==
    /\ streak' = <<calculateStreak(archivedWeeks)>>
    /\ UNCHANGED <<archivedWeeks, storeVars, weeklyVars, dailyVars, pureVars,
                   recordVars>>

InitStreak ==
    StoreInit /\ WeeklyIdle /\ StreakInit /\ DailyStoreInit
    /\ PureIdle /\ RecordIdle

SpecStreak == InitStreak /\ [][CallCalculateStreak]_vars

\* a variant that sorts the oldest week first
insertWeek_OldestFirst(sorted, week) ==
    LET ahead == { i \in 1..Len(sorted) :
                     sorted[i].weekStart <= week.weekStart }
        n == Cardinality(ahead)
    IN  SubSeq(sorted, 1, n) \o <<week>> \o SubSeq(sorted, n + 1, Len(sorted))

\* Array.prototype.sort with the comparator b.weekStart - a.weekStart: the
\* week goes behind every week that does not start before it, so weeks that
\* start together stay in the order they came in (the sort is stable)
insertWeek(sorted, week) ==
    LET ahead == { i \in 1..Len(sorted) :
                     sorted[i].weekStart >= week.weekStart }
        n == Cardinality(ahead)
    IN  SubSeq(sorted, 1, n) \o <<week>> \o SubSeq(sorted, n + 1, Len(sorted))

RECURSIVE sortWeeksLoop(_, _, _)
sortWeeksLoop(weeks, i, sorted) ==
    IF i > Len(weeks) THEN sorted
    ELSE sortWeeksLoop(weeks, i + 1, insertWeek(sorted, weeks[i]))

\* [...weeks].sort(...): a new list, the one handed in stays as it is
sortWeeksByMostRecent(weeks) == sortWeeksLoop(weeks, 1, <<>>)

\* a caller sorts its history and hands it to calculateStreak
CallSortedStreak ==
    /\ ret' = <<sortWeeksByMostRecent(archivedWeeks)>>
    /\ streak' = <<calculateStreak(sortWeeksByMostRecent(archivedWeeks))>>
    /\ UNCHANGED <<archivedWeeks, args, storeVars, weeklyVars, dailyVars,
                   recordVars>>

SpecSortedStreak == InitStreak /\ [][CallSortedStreak]_vars

\* The time zone of the runtime.  A Date is held above by its local wall
\* clock; getTime() counts from the epoch, and the two differ by the zone's
\* offset at that wall-clock time.  The offset changes when summer time
\* begins: in Europe/Berlin on Sunday 30 March 2025 (day 90) from 02:00 to
\* 03:00, in America/New_York on Sunday 9 March 2025 (day 69) likewise.
TimeZones == {"UTC", "Europe/Berlin", "America/New_York"}

\* hours the local wall clock is ahead of UTC
utcOffset(zone, date) ==
    IF zone = "Europe/Berlin"
    THEN (IF date >= 90 * HoursPerDay + 3 THEN 2 ELSE 1)
    ELSE IF zone = "America/New_York"
    THEN (IF date >= 69 * HoursPerDay + 3 THEN 0 - 4 ELSE 0 - 5)
    ELSE 0

\* Date.getTime(), in hours
getTime(zone, date) == date - utcOffset(zone, date)

\* the last week, counted from the week of Monday 30 December 2024, whose
\* Monday is handed to calculateStreak: the week of Monday 31 March 2025
MaxMonday == 13

\* the week a date lies in, archived in a zone: weekStart and weekEnd as
\* getWeekStart and getWeekEnd make them, held by their getTime()
archivedWeekOf(zone, date, points) ==
    [weekStart    |-> getTime(zone, getWeekStart(date)),
     weekEnd      |-> getTime(zone, getWeekEnd(date)),
     totalPoints  |-> points,
     goalAchieved |-> didAchieveGoal(points)]

\* a Wednesday 10:00 of week k
MidWeek(k) == k * oneWeekMs + 2 * HoursPerDay + 10

\* two calendar-adjacent weeks that both reached the goal (30 or 31 points),
\* the more recent one first
AdjacentHistories ==
    { <<archivedWeekOf(zone, MidWeek(k + 1), p1),
        archivedWeekOf(zone, MidWeek(k), p2)>> :
        zone \in TimeZones, k \in 0..(MaxMonday - 1),
        p1 \in {120, 124}, p2 \in {120, 124} }

InitAdjacent ==
    /\ StoreInit /\ WeeklyIdle /\ DailyStoreInit
    /\ PureIdle /\ RecordIdle
    /\ archivedWeeks \in AdjacentHistories
    /\ streak = <<>>

SpecAdjacent == InitAdjacent /\ [][CallCalculateStreak]_vars

----------------------------------------------------------------------------
\* The pure functions of domain/points.ts, domain/dates.ts and
\* domain/colors.ts called directly, as their tests do: the caller holds the
\* arguments in `args` (<<>> when there is no direct caller) and the value
\* returned in `ret`

\* length of the freely chosen part of a list handed to a pure function
MaxEntries == 2
\* herbs and spices in front of a list handed to the points functions
MaxHerbs == 13
\* the last calendar day, counted from Monday 30 December 2024, of the dates
\* handed to getWeekStart
MaxDay == 41

\* domain/points.ts: h herbs and spices, then up to MaxEntries foods of any
\* categories, each under a foodId of its own
FoodForPoints(k, category) ==
    [foodId |-> "food" \o ToString(k), category |-> category]

PointLists ==
    UNION { { [k \in 1..(h + n) |->
                 FoodForPoints(k, IF k <= h THEN "herbs_spices"
                                  ELSE l[k - h])] :
              l \in [1..n -> FOOD_CATEGORIES] } :
            h \in 0..MaxHerbs, n \in 0..MaxEntries }

CallCalculatePoints ==
    /\ args # <<>>
    /\ ret' = <<[weeklyPoints |-> calculateWeeklyPoints(args[1]),
                 breakdown    |-> calculateCategoryBreakdown(args[1])]>>
    /\ UNCHANGED <<args, storeVars, weeklyVars, streakVars, dailyVars,
                   recordVars>>

\* the weekly store at work while nobody calls the functions directly
StoreWeekLog == args = <<>> /\ NextWeekLog

InitPoints ==
    /\ StoreInit /\ WeeklyIdle /\ StreakIdle /\ DailyStoreInit
    /\ RecordIdle
    /\ args \in {<<>>} \cup { <<foods>> : foods \in PointLists }
    /\ ret = <<>>

NextPoints ==
    \/ CallCalculatePoints
    \/ StoreWeekLog

SpecPoints == InitPoints /\ [][NextPoints]_vars

\* domain/streak.ts, didAchieveGoal: every total from 0 to 31 points, in
\* quarter points
GoalPoints == 0..(4 * 31)

CallDidAchieveGoal ==
    /\ args # <<>>
    /\ ret' = <<didAchieveGoal(args[1])>>
    /\ UNCHANGED <<args, storeVars, weeklyVars, streakVars, dailyVars,
                   recordVars>>

\* a week stored earlier: 29 vegetables and 3 herbs, 29.75 points, each
\* logged on Monday 10:00 under a foodId of its own
StoredWeek ==
    [k \in 1..32 |->
        [instanceId      |-> 100 + k,
         foodId          |-> "stored" \o ToString(k),
         foodName        |-> "Stored",
         category        |-> IF k <= 29 THEN "vegetables" ELSE "herbs_spices",
         color           |-> "green",
         isFermented     |-> FALSE,
         loggedDate      |-> 10,
         pointValue      |-> IF k <= 29 THEN 4 ELSE 1,
         firstLoggedDate |-> 10]]

\* the weekly store constructed over a record store that holds StoredWeek
StoreInitStored ==
    /\ now = 10
    /\ nextId = 0
    /\ isInitialized = FALSE
    /\ weekStart = getWeekStart(now)
    /\ weekEnd = getWeekEnd(now)
    /\ foodInstances = <<>>
    /\ currentStreak = 0
    /\ db = <<weeklyRecord(getWeekStart(now), getWeekEnd(now), StoredWeek, 0)>>
    /\ firstCallDate = NoFoodLogged
    /\ returned = <<>>

\* the weekly store at work while nobody calls didAchieveGoal directly
StoreGoalLog == args = <<>> /\ (Initialize \/ AddFood \/ RemoveFood)

InitGoal ==
    /\ StoreInitStored /\ WeeklyIdle /\ StreakIdle /\ DailyStoreInit
    /\ RecordIdle
    /\ args \in {<<>>} \cup { <<points>> : points \in GoalPoints }
    /\ ret = <<>>

NextGoal ==
    \/ CallDidAchieveGoal
    \/ StoreGoalLog

SpecGoal == InitGoal /\ [][NextGoal]_vars

\* domain/dates.ts, getWeekStart: midnight, 10:00 and 23:00 of every day from
\* Monday 30 December 2024 on
DateInputs ==
    { day * HoursPerDay + hour : day \in 0..MaxDay, hour \in {0, 10, 23} }

CallGetWeekStart ==
    /\ ret' = <<getWeekStart(args[1])>>
    /\ UNCHANGED <<args, storeVars, weeklyVars, streakVars, dailyVars,
                   recordVars>>

InitWeekStart ==
    /\ StoreInit /\ WeeklyIdle /\ StreakIdle /\ DailyStoreInit
    /\ RecordIdle
    /\ args \in { <<date>> : date \in DateInputs }
    /\ ret = <<>>

SpecWeekStart == InitWeekStart /\ [][CallGetWeekStart]_vars

\* domain/dates.ts, isSameWeek: Monday 00:00 and 10:00, Sunday 10:00 and
\* 23:00 of week 0, Monday 00:00 and 10:00 of week 1, Sunday 23:00 of week 1
\* and Monday 00:00 of week 2
WeekInstants == {0, 10, 154, 167, 168, 178, 335, 336}

\* the calls isSameWeek(a, b), (b, a), (b, c), (a, c) and (a, a)
CallIsSameWeek ==
    /\ ret' = <<[ab |-> isSameWeek(args[1], args[2]),
                 ba |-> isSameWeek(args[2], args[1]),
                 bc |-> isSameWeek(args[2], args[3]),
                 ac |-> isSameWeek(args[1], args[3]),
                 aa |-> isSameWeek(args[1], args[1])]>>
    /\ UNCHANGED <<args, storeVars, weeklyVars, streakVars, dailyVars,
                   recordVars>>

InitSameWeek ==
    /\ StoreInit /\ WeeklyIdle /\ StreakIdle /\ DailyStoreInit
    /\ RecordIdle
    /\ args \in { <<a, b, c>> : a \in WeekInstants, b \in WeekInstants,
                                 c \in WeekInstants }
    /\ ret = <<>>

SpecSameWeek == InitSameWeek /\ [][CallIsSameWeek]_vars

\* domain/colors.ts, calculateDailyColors: entries logged at 00:00 and 23:00
\* of 30 December, at 00:00 of 31 December and at 10:00 of 30 January, asked
\* for 30 December 10:00 and for 31 December 10:00
EntryDates == {0, 23, 24, 31 * HoursPerDay + 10}

TargetDates == {10, HoursPerDay + 10}

FoodsWithColor ==
    UNION { [1..n -> [color : Colors, loggedDate : EntryDates]] :
            n \in 0..MaxEntries }

CallCalculateDailyColors ==
    /\ ret' = <<[daily  |-> calculateDailyColors(args[1], args[2]),
                 weekly |-> calculateWeeklyColors(args[1])]>>
    /\ UNCHANGED <<args, storeVars, weeklyVars, streakVars, dailyVars,
                   recordVars>>

InitDailyColors ==
    /\ StoreInit /\ WeeklyIdle /\ StreakIdle /\ DailyStoreInit
    /\ RecordIdle
    /\ args \in { <<foods, date>> : foods \in FoodsWithColor,
                                     date \in TargetDates }
    /\ ret = <<>>

SpecDailyColors == InitDailyColors /\ [][CallCalculateDailyColors]_vars

\* domain/colors.ts, hasAllColors: the first k of the six colors, then up to
\* MaxEntries colors of any kind, so that a list may repeat a color
ColorLists ==
    UNION { { SubSeq(allColors, 1, k) \o l : l \in [1..n -> FOOD_COLORS] } :
            k \in 0..Len(allColors), n \in 0..MaxEntries }

CallHasAllColors ==
    /\ ret' = <<hasAllColors(args[1])>>
    /\ UNCHANGED <<args, storeVars, weeklyVars, streakVars, dailyVars,
                   recordVars>>

InitAllColors ==
    /\ StoreInit /\ WeeklyIdle /\ StreakIdle /\ DailyStoreInit
    /\ RecordIdle
    /\ args \in { <<colors>> : colors \in ColorLists }
    /\ ret = <<>>

SpecAllColors == InitAllColors /\ [][CallHasAllColors]_vars

----------------------------------------------------------------------------
\* The record store (infrastructure/db.ts), called directly
\*
\* Two object stores of one database, each with key path 'id'.  An object
\* store is the set of its records; no two of them have the same id.

\* the users asked for; the second one's id reads like a daily key
UserIds == {"u1", "u1-2025-01-06"}

\* the days asked for, as YYYY-MM-DD strings
DateStrings == {"2025-01-06", "2025-01-07"}

\* a key that reads the user only
dailyKey_UserOnly(userId, date) == userId

\* `${userId}-${date}`
dailyKey(userId, date) == userId \o "-" \o date

\* createMockWeeklyData(userId) with the streak the test then sets
WeeklyRecords ==
    { [id |-> userId, userId |-> userId, currentStreak |-> currentStrk] :
        userId \in UserIds, currentStrk \in {0, 1} }

\* createMockDailyData(userId, date) with the water the test then sets
DailyRecords ==
    { [id           |-> dailyKey(userId, date),
       userId       |-> userId,
       date         |-> date,
       waterGlasses |-> water] :
        userId \in UserIds, date \in DateStrings, water \in {10, 12} }

\* db.put(store, data): the record takes the place of any record with its id
put(store, data) == { r \in store : r.id # data.id } \cup {data}

\* db.get(store, key) || null: <<the record>>, or <<>> for null
get(store, key) ==
    IF \E r \in store : r.id = key
    THEN <<CHOOSE r \in store : r.id = key>>
    ELSE <<>>

\* db.delete(store, key)
delete(store, key) == { r \in store : r.id # key }

SaveWeeklyData ==
    \E data \in WeeklyRecords :
        /\ weeklyData' = put(weeklyData, data)
        /\ args' = <<"saveWeeklyData", data>>
        /\ ret' = <<>>
        /\ UNCHANGED <<dailyData, requests, storeVars, weeklyVars,
                       streakVars, dailyVars>>

LoadWeeklyData ==
    \E userId \in UserIds :
        /\ args' = <<"loadWeeklyData", userId>>
        /\ ret' = <<get(weeklyData, userId)>>
        /\ UNCHANGED <<recordVars, storeVars, weeklyVars, streakVars,
                       dailyVars>>

DeleteWeeklyData ==
    \E userId \in UserIds :
        /\ weeklyData' = delete(weeklyData, userId)
        /\ args' = <<"deleteWeeklyData", userId>>
        /\ ret' = <<>>
        /\ UNCHANGED <<dailyData, requests, storeVars, weeklyVars,
                       streakVars, dailyVars>>

SaveDailyData ==
    \E data \in DailyRecords :
        /\ dailyData' = put(dailyData, data)
        /\ args' = <<"saveDailyData", data>>
        /\ ret' = <<>>
        /\ UNCHANGED <<weeklyData, requests, storeVars, weeklyVars,
                       streakVars, dailyVars>>

LoadDailyData ==
    \E userId \in UserIds, date \in DateStrings :
        /\ args' = <<"loadDailyData", userId, date>>
        /\ ret' = <<get(dailyData, dailyKey(userId, date))>>
        /\ UNCHANGED <<recordVars, storeVars, weeklyVars, streakVars,
                       dailyVars>>

DeleteDailyData ==
    \E userId \in UserIds, date \in DateStrings :
        /\ dailyData' = delete(dailyData, dailyKey(userId, date))
        /\ args' = <<"deleteDailyData", userId, date>>
        /\ ret' = <<>>
        /\ UNCHANGED <<weeklyData, requests, storeVars, weeklyVars,
                       streakVars, dailyVars>>

ClearAllData ==
    /\ weeklyData' = {}
    /\ dailyData' = {}
    /\ args' = <<"clearAllData">>
    /\ ret' = <<>>
    /\ UNCHANGED <<requests, storeVars, weeklyVars, streakVars, dailyVars>>

InitRecordStore ==
    /\ StoreInit /\ WeeklyIdle /\ StreakIdle /\ DailyStoreInit
    /\ PureIdle /\ RecordIdle

NextRecordStore ==
    \/ SaveWeeklyData
    \/ LoadWeeklyData
    \/ DeleteWeeklyData
    \/ SaveDailyData
    \/ LoadDailyData
    \/ DeleteDailyData
    \/ ClearAllData

SpecRecordStore == InitRecordStore /\ [][NextRecordStore]_vars

----------------------------------------------------------------------------
\* stores/weeklyStore.ts, its calls issued without awaiting one another.
\*
\* An async function runs to its first await that has to wait; the rest runs
\* when what it waits for is there.  Up to the call of db.put or db.get the
\* code of a call runs without a break: persistToDb has built its record from
\* the store's state by then.  The record store takes the calls in the order
\* they were issued (`requests`), and a caller goes on when its call is done.

\* saveWeeklyData(record) under way; `reply` is what the caller returns
\* after it, <<>> when it returns nothing
putRequest(record, reply) ==
    [op |-> "put", data |-> <<record>>, reply |-> reply]

\* loadWeeklyData(userId) under way
getRequest == [op |-> "get", data |-> <<>>, reply |-> <<>>]

\* the instances of the record saved last
savedInstances ==
    IF db = <<>> THEN <<>>
    ELSE [i \in 1..Len(db[1].foodInstances) |->
              convertRecordToInstance(db[1].foodInstances[i])]

\* initialize up to `await loadWeeklyData`
IssueInitialize ==
    /\ ~isInitialized
    /\ Len(requests) < MaxPending
    /\ requests' = Append(requests, getRequest)
    /\ UNCHANGED <<storeVars, weeklyVars, streakVars, dailyVars, pureVars,
                   weeklyData, dailyData>>

\* a variant that looks for the duplicate in the record saved last
issueAddFood_Saved(food, color, isFermented) ==
    LET food1 == candidate(food, color, isFermented, now)
        res   == addFoodToWeek(savedInstances, food1, nextId + 1)
    IN  /\ IF res.isDuplicateInstance
           THEN /\ returned' = <<[success |-> FALSE, isDuplicate |-> TRUE]>>
                /\ UNCHANGED <<nextId, foodInstances, firstCallDate, requests>>
           ELSE LET foods == Append(foodInstances, res.foods[Len(res.foods)])
                IN  /\ nextId < MaxIds
                    /\ Len(requests) < MaxPending
                    /\ nextId' = nextId + 1
                    /\ foodInstances' = foods
                    /\ requests' =
                           Append(requests,
                                  putRequest(
                                      weeklyRecord(weekStart, weekEnd, foods,
                                                   currentStreak),
                                      <<[success     |-> TRUE,
                                         isDuplicate |-> FALSE]>>))
                    /\ firstCallDate' =
                           IF firstCallDate[food.foodId] = Undefined
                           THEN [firstCallDate EXCEPT ![food.foodId] = now]
                           ELSE firstCallDate
                    /\ UNCHANGED returned
        /\ UNCHANGED <<now, isInitialized, weekStart, weekEnd, currentStreak,
                       db>>
        /\ UNCHANGED <<weeklyVars, streakVars, dailyVars, pureVars,
                       weeklyData, dailyData>>

\* addFood up to `await saveWeeklyData(record)`; a duplicate returns at once
issueAddFood(food, color, isFermented) ==
    LET food1 == candidate(food, color, isFermented, now)
        res   == addFoodToWeek(foodInstances, food1, nextId + 1)
    IN  /\ IF res.isDuplicateInstance
           THEN /\ returned' = <<[success |-> FALSE, isDuplicate |-> TRUE]>>
                /\ UNCHANGED <<nextId, foodInstances, firstCallDate, requests>>
           ELSE /\ nextId < MaxIds
                /\ Len(requests) < MaxPending
                /\ nextId' = nextId + 1
                /\ foodInstances' = res.foods
                /\ requests' =
                       Append(requests,
                              putRequest(
                                  weeklyRecord(weekStart, weekEnd, res.foods,
                                               currentStreak),
                                  <<[success     |-> TRUE,
                                     isDuplicate |-> FALSE]>>))
                /\ firstCallDate' =
                       IF firstCallDate[food.foodId] = Undefined
                       THEN [firstCallDate EXCEPT ![food.foodId] = now]
                       ELSE firstCallDate
                /\ UNCHANGED returned
        /\ UNCHANGED <<now, isInitialized, weekStart, weekEnd, currentStreak,
                       db>>
        /\ UNCHANGED <<weeklyVars, streakVars, dailyVars, pureVars,
                       weeklyData, dailyData>>

IssueAddFood ==
    \E food \in Foods, color \in Colors, isFermented \in BOOLEAN :
        issueAddFood(food, color, isFermented)

\* removeFood up to `await saveWeeklyData(record)`
IssueRemoveFood ==
    \E instanceId \in 1..MaxIds :
        LET kept == SelectSeq(foodInstances,
                              LAMBDA i : i.instanceId # instanceId)
        IN  /\ Len(requests) < MaxPending
            /\ foodInstances' = kept
            /\ requests' =
                   Append(requests,
                          putRequest(weeklyRecord(weekStart, weekEnd, kept,
                                                  currentStreak), <<>>))
            /\ UNCHANGED <<now, nextId, isInitialized, weekStart, weekEnd,
                           currentStreak, db, firstCallDate, returned>>
            /\ UNCHANGED <<weeklyVars, streakVars, dailyVars, pureVars,
                           weeklyData, dailyData>>

\* updateFood up to `await saveWeeklyData(record)`; it returns at once when
\* no instance has the id
IssueUpdateFood ==
    /\ \E instanceId \in 1..MaxIds, updates \in Updates :
           IF \E k \in 1..Len(foodInstances) :
                  foodInstances[k].instanceId = instanceId
           THEN LET k == CHOOSE k \in 1..Len(foodInstances) :
                           foodInstances[k].instanceId = instanceId
                    instance == foodInstances[k]
                    updated ==
                        [instance EXCEPT
                            !.color = IF updates.color # <<>>
                                      THEN updates.color[1] ELSE @,
                            !.isFermented = IF updates.isFermented # <<>>
                                            THEN updates.isFermented[1] ELSE @]
                    instances == [foodInstances EXCEPT ![k] = updated]
                IN  /\ Len(requests) < MaxPending
                    /\ foodInstances' = instances
                    /\ requests' =
                           Append(requests,
                                  putRequest(
                                      weeklyRecord(weekStart, weekEnd,
                                                   instances, currentStreak),
                                      <<>>))
           ELSE UNCHANGED <<foodInstances, requests>>
    /\ UNCHANGED <<now, nextId, isInitialized, weekStart, weekEnd,
                   currentStreak, db, firstCallDate, returned>>
    /\ UNCHANGED <<weeklyVars, streakVars, dailyVars, pureVars, weeklyData,
                   dailyData>>

\* resetWeek up to `await saveWeeklyData(record)`
IssueResetWeek ==
    /\ Len(requests) < MaxPending
    /\ weekStart' = getWeekStart(now)
    /\ weekEnd' = getWeekEnd(now)
    /\ foodInstances' = <<>>
    /\ requests' =
           Append(requests,
                  putRequest(weeklyRecord(getWeekStart(now), getWeekEnd(now),
                                          <<>>, currentStreak), <<>>))
    /\ firstCallDate' = NoFoodLogged
    /\ UNCHANGED <<now, nextId, isInitialized, currentStreak, db, returned>>
    /\ UNCHANGED <<weeklyVars, streakVars, dailyVars, pureVars, weeklyData,
                   dailyData>>

\* the k-th call under way is done and its caller runs on: after a put the
\* caller returns; after a get initialize takes what was loaded
completeAt(k) ==
    LET request == requests[k]
    IN  /\ requests' = SubSeq(requests, 1, k - 1)
                           \o SubSeq(requests, k + 1, Len(requests))
        /\ IF request.op = "put"
           THEN /\ db' = request.data
                /\ returned' = IF request.reply # <<>>
                               THEN request.reply ELSE returned
                /\ UNCHANGED <<isInitialized, weekStart, weekEnd,
                               foodInstances, currentStreak>>
           ELSE /\ IF db # <<>>
                   THEN LET data == db[1]
                        IN  /\ weekStart' = parseISOString(data.weekStart)
                            /\ weekEnd' = parseISOString(data.weekEnd)
                            /\ currentStreak' = data.currentStreak
                            /\ foodInstances' = savedInstances
                   ELSE /\ weekStart' = getWeekStart(now)
                        /\ weekEnd' = getWeekEnd(now)
                        /\ foodInstances' = <<>>
                        /\ currentStreak' = 0
                /\ isInitialized' = TRUE
                /\ UNCHANGED <<db, returned>>
        /\ UNCHANGED <<now, nextId, firstCallDate>>
        /\ UNCHANGED <<weeklyVars, streakVars, dailyVars, pureVars,
                       weeklyData, dailyData>>

\* a variant in which the calls under way are done in any order
CompleteRequest_AnyOrder == \E k \in 1..Len(requests) : completeAt(k)

\* the call issued first is done first
CompleteRequest == requests # <<>> /\ completeAt(1)

\* addFood calls issued one upon the other
NextConcurrentAdd == IssueAddFood \/ CompleteRequest

SpecConcurrentAdd == Init /\ [][NextConcurrentAdd]_vars

\* initialize called again before its load is done, and foods added once
\* the first call is through
AddWhenInitialized == isInitialized /\ IssueAddFood

NextOverlappingInit == IssueInitialize \/ AddWhenInitialized \/ CompleteRequest

SpecOverlappingInit == Init /\ [][NextOverlappingInit]_vars

\* the four mutations issued one upon the other while the clock runs
NextConcurrent ==
    \/ Tick
    \/ IssueAddFood
    \/ IssueRemoveFood
    \/ IssueUpdateFood
    \/ IssueResetWeek
    \/ CompleteRequest

SpecConcurrent == Init /\ [][NextConcurrent]_vars

----------------------------------------------------------------------------
\* Properties

\* two instances (or an instance and a candidate) with the same
\* (foodId, color, isFermented)
SameTriple(a, b) ==
    /\ a.foodId = b.foodId
    /\ a.color = b.color
    /\ a.isFermented = b.isFermented

ContainsTriple(foods, food) ==
    \E i \in 1..Len(foods) : SameTriple(foods[i], food)

ContainsFoodId(foods, foodId) ==
    \E i \in 1..Len(foods) : foods[i].foodId = foodId

Min(S) == CHOOSE x \in S : \A y \in S : x <= y

\* the step was a store addFood that appended an instance
Appended == nextId' # nextId

Added == foodInstances'[Len(foodInstances')]

\* C1: in the weekly store, after any sequence of addFood, removeFood,
\* updateFood and resetWeek, no two instances of the week's list share the
\* same (foodId, color, isFermented).
C1_NoDuplicateTriples ==
    \A i, j \in 1..Len(foodInstances) :
        i # j => ~SameTriple(foodInstances[i], foodInstances[j])

\* the point value of a category, in quarter points
QuarterPoints(category) == IF category = "herbs_spices" THEN 1 ELSE 4

\* the indices of the instances that are the first of their foodId
FirstOfFoodId(instances) ==
    { i \in 1..Len(instances) :
        \A j \in 1..(i - 1) : instances[j].foodId # instances[i].foodId }

RECURSIVE SumQuarterPoints(_, _)
SumQuarterPoints(instances, I) ==
    IF I = {} THEN 0
    ELSE LET i == CHOOSE i \in I : TRUE
         IN  QuarterPoints(instances[i].category)
             + SumQuarterPoints(instances, I \ {i})

C2_PointsOncePerFoodId ==
    totalPoints(foodInstances) =
        SumQuarterPoints(foodInstances, FirstOfFoodId(foodInstances))

C2_FurtherInstanceAddsNoPoints ==
    (Appended /\ ContainsFoodId(foodInstances, Added.foodId)) =>
        /\ Len(foodInstances') = Len(foodInstances) + 1
        /\ totalPoints(foodInstances') = totalPoints(foodInstances)

\* C2: in every reachable state of the weekly store totalPoints is the sum,
\* over the distinct foodIds, of the point value of the category of the first
\* instance with that foodId; adding a further non-duplicate instance of an
\* already-logged foodId grows the list by one and leaves totalPoints
\* unchanged.
C2_TotalPoints ==
    [] C2_PointsOncePerFoodId /\ [][C2_FurtherInstanceAddsNoPoints]_vars

\* C2 witness: two instances of one foodId, the second of another category,
\* counted once with the first one's category.
C2_Witness ==
    /\ Len(foodInstances) = 2
    /\ foodInstances[1].foodId = foodInstances[2].foodId
    /\ foodInstances[1].category = "vegetables"
    /\ foodInstances[2].category = "herbs_spices"
    /\ totalPoints(foodInstances) = 4

\* C3: addFoodToWeek on a list that already holds the candidate's
\* (foodId, color, isFermented) returns that list unchanged with
\* isDuplicateInstance = true and isNewFood = false, whatever the candidate's
\* other fields; so a second add with the triple of the add before it is
\* always rejected.
C3_DuplicateRejected ==
    result # <<>> =>
        LET r == result[1]
            c == newFood[1]
        IN  /\ ContainsTriple(existingFoods, c) =>
                /\ r.foods = existingFoods
                /\ r.isDuplicateInstance
                /\ ~r.isNewFood
            /\ (prevFood # <<>> /\ SameTriple(prevFood[1], c)) =>
                /\ r.foods = existingFoods
                /\ r.isDuplicateInstance

\* C3 witness: the second of two adds with the same triple, under another
\* name and category, was rejected.
C3_Witness ==
    /\ result # <<>>
    /\ prevFood # <<>>
    /\ SameTriple(prevFood[1], newFood[1])
    /\ prevFood[1].foodName # newFood[1].foodName
    /\ prevFood[1].category # newFood[1].category
    /\ existingFoods[Len(existingFoods)].foodName = prevFood[1].foodName
    /\ result[1].isDuplicateInstance

C5_IsNewFood ==
    (result # <<>> /\ ~result[1].isDuplicateInstance) =>
        (result[1].isNewFood <=>
            ~ContainsFoodId(existingFoods, newFood[1].foodId))

\* C6: after any sequence of addFood calls from the empty list, every
\* instance carries, as firstLoggedDate, the loggedDate of the first call
\* that logged its foodId (so all instances of a foodId share it).
C6_SharedFirstLoggedDate ==
    \A i \in 1..Len(foodInstances) :
        foodInstances[i].firstLoggedDate =
            firstCallDate[foodInstances[i].foodId]

\* C6 witness: two instances of one foodId logged at different instants
\* share the first one's loggedDate as firstLoggedDate.
C6_Witness ==
    /\ Len(foodInstances) = 2
    /\ foodInstances[1].foodId = foodInstances[2].foodId
    /\ foodInstances[1].loggedDate < foodInstances[2].loggedDate
    /\ foodInstances[2].firstLoggedDate = foodInstances[1].loggedDate
    /\ foodInstances[1].firstLoggedDate = foodInstances[1].loggedDate

\* C7: within one week, over addFood and removeFood, every instance added
\* carries the firstLoggedDate set when its foodId was first logged that
\* week, also when every earlier instance of it was removed in between.
C7_FirstLoggedDateImmutable ==
    [][Appended =>
        Added.firstLoggedDate = firstCallDate'[Added.foodId]]_vars

\* C8: a non-duplicate addFoodToWeek returns the list handed over with one
\* new instance appended at the end: the existing instances keep order and
\* values, and the new one carries the candidate's foodId, color,
\* isFermented, category, loggedDate and pointValue.
C8_AppendsAtEnd ==
    (result # <<>> /\ ~ContainsTriple(existingFoods, newFood[1])) =>
        LET r == result[1]
            c == newFood[1]
            n == Len(existingFoods)
        IN  /\ ~r.isDuplicateInstance
            /\ Len(r.foods) = n + 1
            /\ \A i \in 1..n : r.foods[i] = existingFoods[i]
            /\ r.foods[n + 1].foodId = c.foodId
            /\ r.foods[n + 1].foodName = c.foodName
            /\ r.foods[n + 1].color = c.color
            /\ r.foods[n + 1].isFermented = c.isFermented
            /\ r.foods[n + 1].category = c.category
            /\ r.foods[n + 1].loggedDate = c.loggedDate
            /\ r.foods[n + 1].pointValue = c.pointValue
            /\ \A i \in 1..n : r.foods[i].instanceId # r.foods[n + 1].instanceId

\* C8 witness: a candidate appended behind two existing instances.
C8_Witness ==
    /\ result # <<>>
    /\ Len(existingFoods) = 2
    /\ Len(result[1].foods) = 3
    /\ result[1].foods[3].foodId = newFood[1].foodId
    /\ result[1].foods[1] = existingFoods[1]
    /\ result[1].foods[2] = existingFoods[2]

\* week i of the history counts: it and every week before it achieved the
\* goal, and each is exactly 7 days (7 * 24 hours) before the one before it
CountsUpTo(weeks, k) ==
    \A i \in 1..k :
        /\ weeks[i].goalAchieved
        /\ i > 1 => weeks[i - 1].weekStart = weeks[i].weekStart + 7 * 24

\* C9: calculateStreak(weeks) is the largest k such that each of the first k
\* weeks achieved the goal and starts exactly 7 days before the week before
\* it; 0 for the empty list; the first week that fails either test and every
\* week after it is not counted.
C9_StreakIsLongestPrefix ==
    streak # <<>> =>
        /\ streak[1] \in 0..Len(archivedWeeks)
        /\ CountsUpTo(archivedWeeks, streak[1])
        /\ \A k \in 0..Len(archivedWeeks) :
               CountsUpTo(archivedWeeks, k) => k <= streak[1]
        /\ archivedWeeks = <<>> => streak[1] = 0

\* C9 witness: two adjacent achieved weeks counted, then an achieved week
\* behind a gap that is not.
C9_Witness ==
    /\ streak = <<2>>
    /\ Len(archivedWeeks) = 3
    /\ archivedWeeks[3].goalAchieved
    /\ archivedWeeks[2].weekStart - archivedWeeks[3].weekStart = 2 * 7 * 24

\* the step was an initialize that loaded or set up the week
Initialized == ~isInitialized /\ isInitialized'

\* C10: once shouldArchiveWeek(now, weekStart) is true the tracked week is
\* archived and reset, so the store never appends to, or starts serving from
\* a stored record, the list of a week that is not the current week.
C10_SupersededOnNewWeek ==
    [][(Appended \/ Initialized) =>
        ~shouldArchiveWeek(now', weekStart')]_vars

\* a step of one of the daily operations that are not a reset
DailyOperation ==
    \/ MarkFermentedFood
    \/ AddColor
    \/ IncrementWater
    \/ DecrementWater
    \/ SetWaterGlasses
    \/ UpdateFromFoodInstances

\* C11: once fermentedFoodEaten is true it stays true over every later
\* markFermentedFood, addColor, water action and updateFromFoodInstances of
\* the day, until the aggregate is reset.
C11_FermentedFlagSticky ==
    [][(fermentedFoodEaten /\ DailyOperation) => fermentedFoodEaten']_vars

\* a whole number of glasses between 0 and 20 (in half glasses)
WholeGlassesInRange(w) == w % 2 = 0 /\ 0 <= w /\ w <= 2 * 20

\* C12: in every reachable state of the daily store waterGlasses is an
\* integer in [0, 20]; incrementWater at 20 and decrementWater at 0 leave it
\* unchanged.
C12_WaterInRange ==
    [][/\ WholeGlassesInRange(waterGlasses')
       /\ (IncrementWater /\ waterGlasses = 2 * 20) =>
              waterGlasses' = waterGlasses
       /\ (DecrementWater /\ waterGlasses = 0) =>
              waterGlasses' = waterGlasses]_vars

\* C13: setWaterGlasses(n) sets the count to exactly n (and saves it) when
\* 0 <= n <= 20, boundaries included; for n outside [0, 20] it leaves the
\* in-memory count and the persisted daily record unchanged.
C13_SetWaterGlasses ==
    [][\A n \in WaterCounts :
          setWaterGlasses(n) =>
              IF 0 <= n /\ n <= 2 * 20
              THEN /\ waterGlasses' = n
                   /\ dailyDb' # <<>>
                   /\ dailyDb'[1].waterGlasses = n
              ELSE /\ waterGlasses' = waterGlasses
                   /\ dailyDb' = dailyDb]_vars

\* C13 witness: the count set to the upper boundary, 20 glasses, and saved,
\* with another color and flag state than a fresh day has.
C13_Witness ==
    /\ waterGlasses = 2 * 20
    /\ colorsEaten # <<>>
    /\ dailyDb # <<>>
    /\ dailyDb[1].waterGlasses = 2 * 20
    /\ dailyDb[1].colorsEaten = colorsEaten

\* the calendar day the daily store is on, as a day number
StoreDay ==
    dayNumber(newDate(currentDateString.year, currentDateString.month - 1,
                      currentDateString.day))

SumOfBreakdown(b) ==
    b["whole_grains"] + b["nuts_seeds"] + b["fruits"] + b["vegetables"]
        + b["legumes"] + b["herbs_spices"]

\* C15: for every list of foods the six values of the category breakdown add
\* up to the weekly points exactly (in quarter points), and so do the weekly
\* store's categoryBreakdown and totalPoints in every reachable state.
C15_BreakdownSumsToPoints ==
    /\ ret # <<>> => SumOfBreakdown(ret[1].breakdown) = ret[1].weeklyPoints
    /\ SumOfBreakdown(categoryBreakdown(foodInstances)) =
           totalPoints(foodInstances)

\* C15 witness: a list of herbs and two other categories, broken down into
\* three non-zero values.
C15_Witness ==
    /\ ret # <<>>
    /\ ret[1].breakdown["herbs_spices"] = 13
    /\ ret[1].breakdown["fruits"] = 4
    /\ ret[1].breakdown["legumes"] = 4
    /\ ret[1].weeklyPoints = 21

\* how many foods of the list are herbs and spices, and how many are not
HerbsIn(foods) ==
    Cardinality({ k \in 1..Len(foods) : foods[k].category = "herbs_spices" })

\* C16: the weekly points of a list are 1 point for every food that is not
\* herbs_spices and 0.25 point for every herbs_spices food, i.e. 4n + h
\* quarter points: 0 for the empty list, 1 point for four herbs, 5.25 points
\* for 13 herbs and 2 vegetables.
C16_WeeklyPointsExact ==
    (args # <<>> /\ ret # <<>>) =>
        LET foods == args[1]
            h == HerbsIn(foods)
            n == Len(foods) - h
        IN  /\ ret[1].weeklyPoints = 4 * n + h
            /\ foods = <<>> => ret[1].weeklyPoints = 0
            /\ (h = 4 /\ n = 0) => ret[1].weeklyPoints = 4
            /\ (h = 13 /\ n = 2) => ret[1].weeklyPoints = 21

\* C16 witness: 13 herbs and 2 vegetables give 5.25 points.
C16_Witness ==
    /\ args # <<>>
    /\ ret # <<>>
    /\ Len(args[1]) = 15
    /\ HerbsIn(args[1]) = 13
    /\ args[1][14].category = "vegetables"
    /\ args[1][15].category = "vegetables"
    /\ ret[1].weeklyPoints = 21

\* C17: didAchieveGoal(p) is true iff p >= 30 points for every total p in
\* quarter points, and the weekly store's goalAchieved equals
\* didAchieveGoal(totalPoints), i.e. says whether the week's points are at
\* least 30, in every reachable state.
C17_GoalAtThirty ==
    /\ (args # <<>> /\ ret # <<>>) => (ret[1] <=> args[1] >= 120)
    /\ goalAchieved(foodInstances) = didAchieveGoal(totalPoints(foodInstances))
    /\ goalAchieved(foodInstances) <=>
           SumQuarterPoints(foodInstances, FirstOfFoodId(foodInstances)) >= 120

\* C17 witness: a week of 29.75 points lifted to exactly 30 by one more herb,
\* goal achieved.
C17_Witness ==
    /\ Len(foodInstances) = 33
    /\ foodInstances[33].category = "herbs_spices"
    /\ totalPoints(foodInstances) = 120
    /\ goalAchieved(foodInstances)

\* C18: for every date d, getWeekStart(d) is local midnight of the Monday on
\* or before d: a Monday at 00:00, not after d and less than 7 days before
\* d; a Sunday maps to the Monday six days earlier and a Monday to its own
\* midnight, also across the end of a month or year.
C18_WeekStartIsMonday ==
    ret # <<>> =>
        LET d == args[1]
            w == ret[1]
        IN  /\ w % 24 = 0
            /\ (w \div 24) % 7 = 0
            /\ w <= d
            /\ d - w < 7 * 24
            /\ (d \div 24) % 7 = 6 => (w \div 24) = (d \div 24) - 6
            /\ (d \div 24) % 7 = 0 => w = (d \div 24) * 24

\* C18 witness: Sunday 2 February 2025 (day 34) at 23:00 maps to Monday 27
\* January, in the month before.
C18_Witness ==
    /\ ret # <<>>
    /\ args[1] = 34 * 24 + 23
    /\ ret[1] = 28 * 24
    /\ getMonth(args[1]) = 1
    /\ getMonth(ret[1]) = 0
    /\ getDate(ret[1]) = 27

\* C19: isSameWeek(a, b) is true iff a and b lie in the same Monday 00:00 to
\* Sunday 23:59 local week; it is reflexive, symmetric and transitive;
\* Sunday 23:00 and the Monday after it are in different weeks, a Monday and
\* the Sunday after it in the same week.
C19_SameWeek ==
    ret # <<>> =>
        LET a == args[1]
            b == args[2]
            r == ret[1]
        IN  /\ r.ab <=> (a \div (7 * 24)) = (b \div (7 * 24))
            /\ r.aa
            /\ r.ab <=> r.ba
            /\ (r.ab /\ r.bc) => r.ac
            /\ (a = 167 /\ b = 168) => ~r.ab
            /\ (a = 0 /\ b = 154) => r.ab

\* C19 witness: Sunday 23:00 and the next Monday 00:00 are in different
\* weeks, that Monday and the Sunday that follows it in the same week.
C19_Witness ==
    /\ ret # <<>>
    /\ args = <<167, 168, 335>>
    /\ ~ret[1].ab
    /\ ret[1].bc

\* the elements of a list, as a set
Range(seq) == { seq[i] : i \in 1..Len(seq) }

\* C20: calculateDailyColors(foods, date) returns exactly the distinct
\* colors of the entries logged on the local calendar day of date, whatever
\* the time of day, each once; the result is a subset of
\* calculateWeeklyColors(foods).
C20_DailyColors ==
    ret # <<>> =>
        LET foods == args[1]
            date == args[2]
            daily == ret[1].daily
        IN  /\ Range(daily) =
                   { foods[i].color :
                       i \in { k \in 1..Len(foods) :
                                 foods[k].loggedDate \div 24 = date \div 24 } }
            /\ Cardinality(Range(daily)) = Len(daily)
            /\ Range(daily) \subseteq Range(ret[1].weekly)

\* C20 witness: entries logged at 00:00 and at 23:00 of the day asked for
\* both count.
C20_Witness ==
    /\ ret # <<>>
    /\ Len(args[1]) = 2
    /\ args[1][1] = [color |-> "green", loggedDate |-> 0]
    /\ args[1][2] = [color |-> "red", loggedDate |-> 23]
    /\ args[2] = 10
    /\ Range(ret[1].daily) = {"green", "red"}

\* the colors of the instances of a list that were logged on calendar day n
ColorsLoggedOn(instances, n) ==
    { instances[k].color :
        k \in { j \in 1..Len(instances) :
                    dayNumber(instances[j].loggedDate) = n } }

\* some instance of the list logged on calendar day n is fermented
FermentedLoggedOn(instances, n) ==
    \E k \in 1..Len(instances) :
        /\ dayNumber(instances[k].loggedDate) = n
        /\ instances[k].isFermented

\* C21: after updateFromFoodInstances(instances) colorsEaten holds exactly
\* the distinct colors of the instances logged on the store's current
\* calendar day, each once; an instance logged on another day adds no color
\* and does not set the fermented flag.
C21_ColorsOfToday ==
    [][\A instances \in DailyInstanceLists :
          updateFromFoodInstances(instances) =>
              /\ Range(colorsEaten') = ColorsLoggedOn(instances, StoreDay)
              /\ Len(colorsEaten') = Cardinality(Range(colorsEaten'))
              /\ (fermentedFoodEaten' /\ ~fermentedFoodEaten) =>
                     FermentedLoggedOn(instances, StoreDay)]_vars

\* C21 witness: on Monday 6 January the store holds the two colors and the
\* flag of that day's instances, of a list that also had a Sunday instance,
\* and has saved them under that day.
C21_Witness ==
    /\ StoreDay = 7
    /\ colorsEaten = <<"red", "green">>
    /\ fermentedFoodEaten
    /\ dailyDb # <<>>
    /\ dailyDb[1].date = currentDateString
    /\ dailyDb[1].colorsEaten = colorsEaten

\* C22: hasAllColors(colors) is true exactly when six distinct colors are
\* present in colors, also for a list that repeats a color.
C22_HasAllColors ==
    ret # <<>> => (ret[1] <=> Cardinality(Range(args[1])) = 6)

\* the positions of a list that hold an instance other than the named one
OtherThan(instances, instanceId) ==
    { k \in 1..Len(instances) : instances[k].instanceId # instanceId }

C28_DuplicateIsSignaledNoOp ==
    [][\A food \in Foods, color \in Colors, isFermented \in BOOLEAN :
          addFood(food, color, isFermented) =>
              IF \E k \in 1..Len(foodInstances) :
                     /\ foodInstances[k].foodId = food.foodId
                     /\ foodInstances[k].color = color
                     /\ foodInstances[k].isFermented = isFermented
              THEN /\ returned' =
                          <<[success |-> FALSE, isDuplicate |-> TRUE]>>
                   /\ UNCHANGED <<foodInstances, db>>
                   /\ totalPoints(foodInstances') = totalPoints(foodInstances)
                   /\ categoryBreakdown(foodInstances') =
                          categoryBreakdown(foodInstances)
                   /\ colorsAchieved(foodInstances') =
                          colorsAchieved(foodInstances)
              ELSE /\ returned' =
                          <<[success |-> TRUE, isDuplicate |-> FALSE]>>
                   /\ Len(foodInstances') = Len(foodInstances) + 1]_vars

\* C28 witness: the last addFood was turned down as a duplicate; the list
\* and the saved record still hold the one instance logged before it.
C28_Witness ==
    /\ returned = <<[success |-> FALSE, isDuplicate |-> TRUE]>>
    /\ nextId = 1
    /\ Len(foodInstances) = 1
    /\ db # <<>>
    /\ Len(db[1].foodInstances) = 1

\* what the weekly store holds in memory
WeekInMemory ==
    [weekStart     |-> weekStart,
     weekEnd       |-> weekEnd,
     foodInstances |-> foodInstances,
     currentStreak |-> currentStreak]

\* what a fresh instance of the weekly store holds after its initialize
WeekReloaded ==
    IF db # <<>>
    THEN [weekStart     |-> parseISOString(db[1].weekStart),
          weekEnd       |-> parseISOString(db[1].weekEnd),
          foodInstances |-> [i \in 1..Len(db[1].foodInstances) |->
                                convertRecordToInstance(
                                    db[1].foodInstances[i])],
          currentStreak |-> db[1].currentStreak]
    ELSE [weekStart     |-> getWeekStart(now),
          weekEnd       |-> getWeekEnd(now),
          foodInstances |-> <<>>,
          currentStreak |-> 0]

\* C24: after any completed addFood, removeFood, updateFood, resetWeek or
\* setStreak, a fresh store instance that initializes restores the same
\* foodInstances in the same order, the same weekStart and weekEnd and the
\* same currentStreak as were in memory.
C24_ReloadRestoresWeek ==
    [][(AddFood \/ RemoveFood \/ UpdateFood \/ ResetWeek \/ SetStreak) =>
          WeekInMemory' = WeekReloaded']_vars

\* C27: resetWeek empties the instance list (0 points, every category 0, no
\* color), sets weekStart and weekEnd to the Monday 00:00 and the Sunday
\* 23:00 hour of the week that holds the current time, and leaves
\* currentStreak as it was.
C27_ResetWeek ==
    [][ResetWeek =>
          /\ foodInstances' = <<>>
          /\ totalPoints(foodInstances') = 0
          /\ \A c \in FOOD_CATEGORIES : categoryBreakdown(foodInstances')[c] = 0
          /\ colorsAchieved(foodInstances') = <<>>
          /\ getDay(weekStart') = 1
          /\ weekStart' % HoursPerDay = 0
          /\ weekStart' <= now
          /\ now <= weekEnd'
          /\ weekEnd' = weekStart' + 6 * HoursPerDay + 23
          /\ currentStreak' = currentStreak]_vars

\* C27 witness: a store with a streak of 1 that logged food and was reset
\* on Monday of week 1; the empty week of that Monday is saved with the
\* streak.
C27_Witness ==
    /\ now = 178
    /\ nextId > 0
    /\ foodInstances = <<>>
    /\ weekStart = 7 * HoursPerDay
    /\ currentStreak = 1
    /\ db # <<>>
    /\ db[1].weekStart = toISOString(7 * HoursPerDay)
    /\ db[1].foodInstances = <<>>
    /\ db[1].currentStreak = 1

\* C29: every instance in the week's list has the point value of its own
\* category (1 point, 0.25 for herbs_spices) as its pointValue.
C29_PointValueOfCategory ==
    \A k \in 1..Len(foodInstances) :
        foodInstances[k].pointValue =
            CATEGORY_POINT_VALUES[foodInstances[k].category]

\* what the daily store holds in memory
DayInMemory ==
    [waterGlasses       |-> waterGlasses,
     colorsEaten        |-> colorsEaten,
     fermentedFoodEaten |-> fermentedFoodEaten]

\* what a fresh instance of the daily store holds after its initialize
DayReloaded ==
    LET data == loadDailyData(formatDateString(now))
    IN  IF data # <<>>
        THEN [waterGlasses       |-> data[1].waterGlasses,
              colorsEaten        |-> data[1].colorsEaten,
              fermentedFoodEaten |-> data[1].fermentedFoodEaten]
        ELSE [waterGlasses       |-> 0,
              colorsEaten        |-> <<>>,
              fermentedFoodEaten |-> FALSE]

\* C25: after any water action, addColor, markFermentedFood,
\* updateFromFoodInstances or resetDaily of an initialized daily store on
\* its calendar day, a fresh store instance that initializes on that day
\* restores the same waterGlasses, colorsEaten and fermentedFoodEaten as
\* were in memory.
C25_ReloadRestoresDay ==
    [][(/\ dailyInitialized
        /\ currentDateString = formatDateString(now)
        /\ \/ IncrementWater
           \/ DecrementWater
           \/ SetWaterGlasses
           \/ AddColor
           \/ MarkFermentedFood
           \/ UpdateFromFoodInstances
           \/ ResetDaily) =>
          DayInMemory' = DayReloaded']_vars

\* C25 witness: on Sunday 5 January an initialized store holds 5 glasses, a
\* color and the fermented flag, all of them saved under that day.
C25_Witness ==
    /\ dailyInitialized
    /\ now = 154
    /\ StoreDay = 6
    /\ waterGlasses = 10
    /\ colorsEaten # <<>>
    /\ fermentedFoodEaten
    /\ DayReloaded = DayInMemory

\* C26: initialize has an effect only on its first call per store instance.
\* With no stored record the first call yields the empty aggregate (weekly:
\* no instances, 0 points, streak 0; daily: 0 glasses, no colors, not
\* fermented); a later call leaves the in-memory state unchanged.
C26_InitializeOnce ==
    [][/\ (Initialize /\ isInitialized) =>
              UNCHANGED <<weekStart, weekEnd, foodInstances, currentStreak,
                          isInitialized>>
       /\ (Initialize /\ ~isInitialized /\ db = <<>>) =>
              /\ foodInstances' = <<>>
              /\ totalPoints(foodInstances') = 0
              /\ currentStreak' = 0
       /\ (DailyInitialize /\ dailyInitialized) =>
              UNCHANGED <<currentDateString, waterGlasses, colorsEaten,
                          fermentedFoodEaten, dailyInitialized>>
       /\ (DailyInitialize /\ ~dailyInitialized
              /\ loadDailyData(formatDateString(now)) = <<>>) =>
              /\ waterGlasses' = 0
              /\ colorsEaten' = <<>>
              /\ ~fermentedFoodEaten']_vars

\* C26 witness: both stores were initialized over an empty record store;
\* the weekly one had its streak set afterwards, without a save, and the
\* clock has moved on to the next week.
C26_Witness ==
    /\ isInitialized
    /\ dailyInitialized
    /\ db = <<>>
    /\ dailyDb = <<>>
    /\ foodInstances = <<>>
    /\ currentStreak = 1
    /\ waterGlasses = 0
    /\ now = 178


\* the weekly records saved for a user, and the daily records saved for a
\* user and a day, whatever their ids
WeeklyOf(userId) == { r \in weeklyData : r.userId = userId }
DailyOf(userId, date) ==
    { r \in dailyData : r.userId = userId /\ r.date = date }

\* the same after the step
WeeklyThen(userId) == { r \in weeklyData' : r.userId = userId }
DailyThen(userId, date) ==
    { r \in dailyData' : r.userId = userId /\ r.date = date }

\* what a load answers for a set of at most one record
Loaded(records) ==
    IF records = {} THEN <<>> ELSE <<CHOOSE r \in records : TRUE>>

OtherWeeklyKept(userId) ==
    \A other \in UserIds \ {userId} : WeeklyThen(other) = WeeklyOf(other)

OtherDailyKept(userId, date) ==
    \A other \in UserIds, day \in DateStrings :
        <<other, day>> # <<userId, date>>
            => DailyThen(other, day) = DailyOf(other, day)

AllWeeklyKept == \A userId \in UserIds : WeeklyThen(userId) = WeeklyOf(userId)

AllDailyKept ==
    \A userId \in UserIds, date \in DateStrings :
        DailyThen(userId, date) = DailyOf(userId, date)

\* every record is under the key of its user (and day), one record a key,
\* and a delete can be taken whether or not the key is there
RecordStoreIsTwoMaps ==
    /\ \A r \in weeklyData : r.userId \in UserIds
    /\ \A r \in dailyData : r.userId \in UserIds /\ r.date \in DateStrings
    /\ \A userId \in UserIds :
        /\ Cardinality(WeeklyOf(userId)) <= 1
        /\ ENABLED (DeleteWeeklyData /\ args' = <<"deleteWeeklyData", userId>>)
    /\ \A userId \in UserIds, date \in DateStrings :
        /\ Cardinality(DailyOf(userId, date)) <= 1
        /\ ENABLED (DeleteDailyData
                    /\ args' = <<"deleteDailyData", userId, date>>)

\* what the call named in args' has done to the two maps
RecordStoreStep ==
    LET op == args'[1] IN
    /\ op = "saveWeeklyData" =>
        /\ WeeklyThen(args'[2].userId) = {args'[2]}
        /\ OtherWeeklyKept(args'[2].userId)
        /\ AllDailyKept
    /\ op = "loadWeeklyData" =>
        /\ ret' = <<Loaded(WeeklyOf(args'[2]))>>
        /\ AllWeeklyKept /\ AllDailyKept
    /\ op = "deleteWeeklyData" =>
        /\ WeeklyThen(args'[2]) = {}
        /\ ret' = <<>>
        /\ OtherWeeklyKept(args'[2])
        /\ AllDailyKept
    /\ op = "saveDailyData" =>
        /\ DailyThen(args'[2].userId, args'[2].date) = {args'[2]}
        /\ OtherDailyKept(args'[2].userId, args'[2].date)
        /\ AllWeeklyKept
    /\ op = "loadDailyData" =>
        /\ ret' = <<Loaded(DailyOf(args'[2], args'[3]))>>
        /\ AllWeeklyKept /\ AllDailyKept
    /\ op = "deleteDailyData" =>
        /\ DailyThen(args'[2], args'[3]) = {}
        /\ ret' = <<>>
        /\ OtherDailyKept(args'[2], args'[3])
        /\ AllWeeklyKept
    /\ op = "clearAllData" =>
        /\ weeklyData' = {}
        /\ dailyData' = {}

\* C30: the record store is two independent maps, weekly records by user and
\* daily records by user and day: nothing is stored at the start; a save
\* puts the record under its key in place of what was there, a delete leaves
\* nothing under its key whether or not something was there, a load answers
\* the record under its key or null and changes nothing, and none of the
\* three changes what is under another key or in the other map; clearAllData
\* empties both maps.
C30_TwoIndependentMaps ==
    /\ weeklyData = {} /\ dailyData = {}
    /\ []RecordStoreIsTwoMaps
    /\ [][RecordStoreStep]_vars

\* a load answers the first day's record of user u1, saved last with five
\* glasses, while the second day's record of u1 is stored next to it and the
\* weekly map holds a record under the very string of the daily key
C30_Witness ==
    /\ args = <<"loadDailyData", "u1", "2025-01-06">>
    /\ ret # <<>> /\ ret[1] # <<>>
    /\ ret[1][1].waterGlasses = 10
    /\ \E r \in dailyData : r.userId = "u1" /\ r.date = "2025-01-07"
    /\ \E r \in weeklyData : r.id = dailyKey("u1", "2025-01-06")


\* C31: two archived weeks that both reached the goal and whose weekStart
\* values are the local-midnight Mondays of two calendar-adjacent weeks, in
\* whatever zone the runtime is, count as consecutive: calculateStreak of
\* the two, the more recent first, is 2.
C31_AdjacentWeeksAreConsecutive ==
    (/\ streak # <<>>
     /\ Len(archivedWeeks) = 2
     /\ archivedWeeks[1].goalAchieved /\ archivedWeeks[2].goalAchieved
     /\ \E zone \in TimeZones, k \in 0..(MaxMonday - 1) :
            /\ archivedWeeks[1].weekStart = getTime(zone, (k + 1) * oneWeekMs)
            /\ archivedWeeks[2].weekStart = getTime(zone, k * oneWeekMs))
        => streak[1] = 2


\* C32: addFood calls issued without awaiting one another are decided one
\* after the other against the list in memory: a call whose (foodId, color,
\* isFermented) is in the list, whether or not the save of the call that
\* put it there is done, returns {success: false, isDuplicate: true} and
\* changes neither the list nor the saves under way; any other call makes
\* the list longer by one and starts one save.  So the list never holds the
\* same (foodId, color, isFermented) twice.
C32_AddsAreSerialized ==
    /\ [](\A i, j \in 1..Len(foodInstances) :
              (/\ foodInstances[i].foodId = foodInstances[j].foodId
               /\ foodInstances[i].color = foodInstances[j].color
               /\ foodInstances[i].isFermented = foodInstances[j].isFermented)
                  => i = j)
    /\ [][\A food \in Foods, color \in Colors, isFermented \in BOOLEAN :
            issueAddFood(food, color, isFermented) =>
                IF \E k \in 1..Len(foodInstances) :
                       /\ foodInstances[k].foodId = food.foodId
                       /\ foodInstances[k].color = color
                       /\ foodInstances[k].isFermented = isFermented
                THEN /\ returned' =
                            <<[success |-> FALSE, isDuplicate |-> TRUE]>>
                     /\ UNCHANGED <<foodInstances, requests, db>>
                ELSE /\ Len(foodInstances') = Len(foodInstances) + 1
                     /\ Len(requests') = Len(requests) + 1]_vars

\* C32 witness: the same food was submitted twice in a row; the second call
\* has been turned down as a duplicate while the save of the first is still
\* under way and nothing has been saved yet.
C32_Witness ==
    /\ returned = <<[success |-> FALSE, isDuplicate |-> TRUE]>>
    /\ Len(foodInstances) = 1
    /\ Len(requests) = 1
    /\ requests[1].op = "put"
    /\ db = <<>>

\* C33: when every initialize call and every save is done, each instance
\* addFood has added since the store was first initialized is in the list
\* in memory.
C33_NoAddIsLost ==
    (isInitialized /\ requests = <<>>) =>
        \A id \in 1..nextId :
            \E k \in 1..Len(foodInstances) : foodInstances[k].instanceId = id

\* C34: with no save under way the record saved last is the record of the
\* state in memory, and with saves under way the one issued last carries it.
C34_SavedIsLatest ==
    LET latest == weeklyRecord(weekStart, weekEnd, foodInstances,
                               currentStreak)
    IN  IF requests = <<>>
        THEN db # <<>> => db[1] = latest
        ELSE requests[Len(requests)].data = <<latest>>

\* C34 witness: two saves with different records are under way over a
\* record saved earlier that differs from both.
C34_Witness ==
    /\ Len(requests) = 2
    /\ requests[1].data # requests[2].data
    /\ db # <<>>
    /\ db # requests[1].data
    /\ db # requests[2].data


\* a water action, addColor, markFermentedFood or updateFromFoodInstances
DailyMutation ==
    \/ IncrementWater
    \/ DecrementWater
    \/ SetWaterGlasses
    \/ AddColor
    \/ MarkFermentedFood
    \/ UpdateFromFoodInstances

\* C35: a daily mutation that writes a record writes the record of the
\* calendar day the wall clock shows when the action is issued.
C35_MutationGoesToItsDay ==
    [][(DailyMutation /\ dailyDb' # dailyDb)
           => dailyDb'[1].date = formatDateString(now)]_vars


\* C36: addColor, a water action, markFermentedFood and
\* updateFromFoodInstances leave every color of colorsEaten in colorsEaten.
C36_ColorsOnlyGrow ==
    [][DailyMutation => Range(colorsEaten) \subseteq Range(colorsEaten')]_vars


\* the history in another order
Reordered(weeks, f) == [i \in 1..Len(weeks) |-> weeks[f[i]]]

\* what sortWeeksByMostRecent and calculateStreak gave for the history: the
\* weeks handed in, each as often as it came, no week starting after the
\* one before it, and the streak any other order of the history gives too
SortedStreakIsOrderFree ==
    LET sorted == ret[1]
    IN  /\ Len(sorted) = Len(archivedWeeks)
        /\ \A week \in ArchivedWeeks :
               Cardinality({i \in 1..Len(sorted) : sorted[i] = week}) =
               Cardinality({i \in 1..Len(archivedWeeks) :
                                archivedWeeks[i] = week})
        /\ \A i \in 1..(Len(sorted) - 1) :
               sorted[i].weekStart >= sorted[i + 1].weekStart
        /\ \A f \in Permutations(1..Len(archivedWeeks)) :
               calculateStreak(
                   sortWeeksByMostRecent(Reordered(archivedWeeks, f)))
                   = streak[1]

\* no two entries of the history are of the same week
OneEntryPerWeek ==
    \A i, j \in 1..Len(archivedWeeks) :
        archivedWeeks[i].weekStart = archivedWeeks[j].weekStart => i = j

\* C37: for a history with one entry per week, sortWeeksByMostRecent
\* returns the weeks handed in in descending weekStart order, and
\* calculateStreak of the sorted history is the same in whatever order the
\* history is handed in.
C37_SortedStreakOfDistinctWeeks ==
    (ret # <<>> /\ OneEntryPerWeek) => SortedStreakIsOrderFree

\* C37 witness: three weeks handed in with the oldest first came back as a
\* streak of two or more.
C37_Witness ==
    /\ ret # <<>>
    /\ OneEntryPerWeek
    /\ Len(archivedWeeks) = 3
    /\ archivedWeeks[1].weekStart < archivedWeeks[2].weekStart
    /\ archivedWeeks[1].weekStart < archivedWeeks[3].weekStart
    /\ streak[1] >= 2

\* C37 as stated, for any history: the same without the condition that no
\* week has two entries.
C37_SortedStreakIsOrderFree == ret # <<>> => SortedStreakIsOrderFree


\* an instance but for its color and its fermentation flag
ButColorAndFermented(instance) ==
    [instance EXCEPT !.color = "any", !.isFermented = FALSE]

\* C38: updateFood(instanceId, updates) sets the color and the fermentation
\* flag of the instance with that id to those of updates that are given and
\* leaves the rest of that instance, every other instance, the number and
\* order of the instances, uniqueFoodIds, totalPoints and categoryBreakdown
\* as they were; when no instance has the id, the list, the week, the streak
\* and the saved record stay as they were.
C38_UpdateFoodFrame ==
    [][\A instanceId \in 1..MaxIds, updates \in Updates :
          updateFood(instanceId, updates) =>
              IF \E k \in 1..Len(foodInstances) :
                     foodInstances[k].instanceId = instanceId
              THEN /\ Len(foodInstances') = Len(foodInstances)
                   /\ \A k \in 1..Len(foodInstances) :
                          IF foodInstances[k].instanceId = instanceId
                          THEN /\ ButColorAndFermented(foodInstances'[k]) =
                                      ButColorAndFermented(foodInstances[k])
                               /\ foodInstances'[k].color =
                                      IF updates.color = <<>>
                                      THEN foodInstances[k].color
                                      ELSE updates.color[1]
                               /\ foodInstances'[k].isFermented =
                                      IF updates.isFermented = <<>>
                                      THEN foodInstances[k].isFermented
                                      ELSE updates.isFermented[1]
                          ELSE foodInstances'[k] = foodInstances[k]
                   /\ getUniqueFoodIds(foodInstances') =
                          getUniqueFoodIds(foodInstances)
                   /\ totalPoints(foodInstances') = totalPoints(foodInstances)
                   /\ categoryBreakdown(foodInstances') =
                          categoryBreakdown(foodInstances)
              ELSE UNCHANGED <<foodInstances, weekStart, weekEnd,
                               currentStreak, db>>]_vars

\* C38 witness: of two instances of one food logged with different colors,
\* the second has been given the color and the flag of the first, and the
\* record saved holds both.
C38_Witness ==
    /\ Len(foodInstances) = 2
    /\ foodInstances[1].instanceId = 1
    /\ foodInstances[2].instanceId = 2
    /\ foodInstances[1].foodId = foodInstances[2].foodId
    /\ foodInstances[1].color = foodInstances[2].color
    /\ foodInstances[1].isFermented = foodInstances[2].isFermented
    /\ db # <<>>
    /\ Len(db[1].foodInstances) = 2
    /\ db[1].foodInstances[2].color = foodInstances[2].color


\* C39: the daily store's colorsEaten holds no color twice, so at most six
\* colors, and allColorsAchieved is true exactly when red, orange, yellow,
\* green, blue_purple and white_tan are all in it.
C39_ColorsAreDistinct ==
    /\ \A i, j \in 1..Len(colorsEaten) :
           colorsEaten[i] = colorsEaten[j] => i = j
    /\ Len(colorsEaten) <= 6
    /\ allColorsAchieved <=>
           {"red", "orange", "yellow", "green", "blue_purple", "white_tan"}
               \subseteq Range(colorsEaten)

\* C39 witness: an initialized store holds all six colors, the record it
\* saved too, and allColorsAchieved is true.
C39_Witness ==
    /\ dailyInitialized
    /\ allColorsAchieved
    /\ dailyDb # <<>>
    /\ Len(dailyDb[1].colorsEaten) = 6
    /\ FOOD_COLORS \subseteq Range(colorsEaten)

====
